---------------------------- MODULE Spec2Model ----------------------------
(***************************************************************************)
(* A model of akm-go's encrypted key store (internal/core storage and      *)
(* crypto): the in-memory record map, the keys file with its               *)
(* write-temp-then-rename save, the append-only audit file and the         *)
(* operations AddKey, UpdateKey, DeleteKey, GetKeyValue, the batch reads,  *)
(* Backup and VerifyAuditLogs.                                             *)
(*                                                                         *)
(* Mutations are serialised by the store's mutex, so one writer position   *)
(* (w) stands for whichever goroutine holds the write lock.  A second      *)
(* position (r) is a goroutine running a read-side operation: GetKeyValue  *)
(* takes the read lock only while it looks the record up and then decrypts *)
(* and logs outside the lock, so its steps interleave with a mutation.     *)
(* Disk operations may fail, and the process may crash in a mutation.      *)
(***************************************************************************)
EXTENDS Integers, Sequences, FiniteSets, TLC

\* ------------------------------------------------------------------ bounds

\* Number of mutating calls (AddKey, UpdateKey, DeleteKey) in a behaviour.
MaxWrites == 2
\* Number of read-side calls (GetKeyValue, batch read, Backup, VerifyAuditLogs).
MaxReads == 1
\* Number of disk operations that fail in a behaviour.
MaxFaults == 1

\* ------------------------------------------------------- program constants

\* len(name) > 256 is rejected.
MaxKeyNameLen == 256

\* ------------------------------------------------------------- key names
\* A name is a sequence of one-character strings.

Letters ==
    {"A", "E", "I", "K", "N", "O", "P", "X", "Y", "a", "c", "e", "h", "p", "s"}

Digits ==
    {"1", "9"}

\* validKeyNamePattern = ^[A-Za-z_][A-Za-z0-9_]*$
validKeyNamePattern(name) ==
    /\ Len(name) >= 1
    /\ name[1] \in Letters \cup {"_"}
    /\ \A i \in 2..Len(name) : name[i] \in Letters \cup Digits \cup {"_"}

ValidateKeyName(name) ==
    IF name = <<>> \/ Len(name) > MaxKeyNameLen
    THEN FALSE
    ELSE validKeyNamePattern(name)

OPENAI_KEY == <<"O", "P", "E", "N", "A", "I", "_", "K", "E", "Y">>
X9 == <<"_", "X", "9">>
DigitFirst == <<"1", "K", "E", "Y">>
HasSpace == <<"h", "a", "s", " ", "s", "p", "a", "c", "e">>
Long256 == [i \in 1..MaxKeyNameLen |-> "A"]
Long257 == [i \in 1..(MaxKeyNameLen + 1) |-> "A"]

\* Names the store operations are called with.
GoodNames == {OPENAI_KEY, X9}
BadNames == {<<>>, DigitFirst, HasSpace, Long257}

\* ---------------------------------------------------------- crypto engine
\* A Fernet token carries the key it was made under, a fresh IV and the
\* payload; VerifyAndDecrypt returns the payload only under the same key.

NoKey == "none"
K1 == "k1"
K0 == "k0"

\* Encrypt: fernet.EncryptAndSign under the master key with a fresh IV.
Encrypt(mk, iv, plaintext) ==
    [k |-> mk, iv |-> iv, pt |-> plaintext]

\* A decryption that accepts a token made under any key.
DecryptOkAnyKey(mk, token) ==
    mk # NoKey

\* Decrypt succeeds only with a master key loaded and a token made under it.
DecryptOk(mk, token) ==
    mk # NoKey /\ token.k = mk

\* SignMessage: the HMAC of the message under the master key.  With no key
\* loaded it returns "" and an error, which logUsage drops.
SignMessage(mk, msg) ==
    IF mk = NoKey THEN <<>> ELSE <<[k |-> mk, msg |-> msg]>>

\* VerifySignature: recompute and compare.
VerifySignature(mk, msg, sig) ==
    mk # NoKey /\ sig = SignMessage(mk, msg)

\* ------------------------------------------------------------ data model

\* models.NewAPIKey, then the options applied.
NewAPIKey(name, valueEncrypted, provider, t) ==
    [name |-> name, value_encrypted |-> valueEncrypted, provider |-> provider,
     description |-> <<>>, source_project |-> <<>>, tags |-> <<>>,
     created_at |-> t, updated_at |-> t, is_active |-> TRUE]

\* WithDescription / WithSourceProject / WithTags: opts is a record of the
\* options given; an option that is absent leaves the field alone.
ApplyOptions(key, opts) ==
    [key EXCEPT
        !.description = IF "description" \in DOMAIN opts
                        THEN <<opts.description>> ELSE @,
        !.source_project = IF "source_project" \in DOMAIN opts
                           THEN <<opts.source_project>> ELSE @,
        !.tags = IF "tags" \in DOMAIN opts THEN opts.tags ELSE @]

\* models.KeysFile as saveKeys builds it; the order of the list is the map's
\* iteration order and is not kept.
KeysFilePayload(cache, t) ==
    [version |-> "2.0", updated_at |-> t, keys |-> {cache[n] : n \in DOMAIN cache}]

\* for _, key := range keysFile.Keys { s.keysCache[key.Name] = key }
CacheOf(keys) ==
    [n \in {k.name : k \in keys} |-> CHOOSE k \in keys : k.name = n]

\* File contents.
Absent == [kind |-> "absent"]
Garbage == [kind |-> "garbage"]
Truncated == [kind |-> "truncated"]
EncFile(token) == [kind |-> "enc", tok |-> token]
PlainFile(payload) == [kind |-> "plain", payload |-> payload]

\* A loadKeys that reads encrypted files only.
loadKeysEncryptedOnly(file, mk) ==
    CASE file.kind = "absent" ->
            [err |-> FALSE, cache |-> <<>>]
      [] file.kind = "enc" /\ DecryptOk(mk, file.tok) ->
            [err |-> FALSE, cache |-> CacheOf(file.tok.pt.keys)]
      [] OTHER ->
            [err |-> FALSE, cache |-> <<>>]

\* loadKeys: whether it returned an error, and the map it filled.
loadKeys(file, mk) ==
    CASE file.kind = "absent" ->
            [err |-> FALSE, cache |-> <<>>]
      [] file.kind = "plain" /\ file.payload.version # "" ->
            [err |-> FALSE, cache |-> CacheOf(file.payload.keys)]
      [] file.kind = "enc" /\ DecryptOk(mk, file.tok) ->
            [err |-> FALSE, cache |-> CacheOf(file.tok.pt.keys)]
      [] OTHER ->
            [err |-> TRUE, cache |-> <<>>]

\* delete(m, name)
MapDelete(m, name) ==
    [n \in DOMAIN m \ {name} |-> m[n]]

\* An assignment that keeps the value a name already has.
MapSetIfAbsent(m, name, v) ==
    [n \in DOMAIN m \cup {name} |-> IF n \in DOMAIN m THEN m[n] ELSE v]

\* m[name] = v
MapSet(m, name, v) ==
    [n \in DOMAIN m \cup {name} |-> IF n = name THEN v ELSE m[n]]

\* Paths in the data directory.
KeysPath == "keys.json"
\* A temp path equal to the keys path: the save would write in place.
TempPathInPlace == "keys.json"
\* tempFile := filepath.Join(s.dataDir, ".keys_temp.json")
TempPath == ".keys_temp.json"

\* os.Rename(from, to): replaces `to` in one step; a no-op on one path.
Rename(files, from, to) ==
    IF from = to THEN files
    ELSE [files EXCEPT ![to] = files[from], ![from] = Absent]

\* os.Remove(path)
Remove(files, path) ==
    [files EXCEPT ![path] = Absent]

\* Audit file contents: entries, line ends and torn fragments of an entry.
NL == [t |-> "nl"]
Torn == [t |-> "torn"]

\* The tuple logUsage signs: key_name, project, action, timestamp.
Canonical(e) ==
    <<e.key_name, e.project, e.action, e.timestamp>>

\* models.NewKeyUsageLog, signed.
SignedLog(keyName, action, project, t, mk) ==
    [t |-> "entry", key_name |-> keyName, project |-> project, action |-> action,
     timestamp |-> t,
     signature |-> SignMessage(mk, <<keyName, project, action, t>>)]

\* A write through a handle opened O_TRUNC instead of O_APPEND.
WriteTruncating(file, token) ==
    <<token>>

\* f.Write on a handle opened O_APPEND|O_CREATE|O_WRONLY.
WriteAppending(file, token) ==
    Append(file, token)

\* ---------------------------------------------------------- budget data

\* The providers the tracker is asked about.
BudgetProviders == {"openai", "anthropic"}

\* The empty date string of a counter that has never been written.
NoDate == <<>>

\* time.Now().Format("2006-01-02") and time.Now().Format("2006-01"): the day
\* string carries its month.  The two readings one call makes are taken at
\* one instant.
Today(clk) == <<clk.month, clk.day>>
ThisMonth(clk) == <<clk.month>>

\* BudgetConfig
BudgetConfig(daily, monthly) ==
    [daily_limit |-> daily, monthly_limit |-> monthly]

\* &providerCounter{}
ZeroCounter ==
    [daily_count |-> 0, monthly_count |-> 0,
     daily_date |-> NoDate, monthly_date |-> NoDate]

\* A lookup that writes the counter it returns, rolled to the current
\* period, back into the map.
getOrResetCounterStoring(cs, provider, clk) ==
    LET c == IF provider \in DOMAIN cs THEN cs[provider] ELSE ZeroCounter
        rolled == [c EXCEPT
                     !.daily_count = IF c.daily_date = Today(clk) THEN @ ELSE 0,
                     !.daily_date = Today(clk)]
    IN  [counter |-> rolled, counters |-> MapSet(cs, provider, rolled)]

\* getOrResetCounter: the stored counter, or a fresh one that is not stored.
\* It returns the counter and the map it leaves behind.
getOrResetCounter(cs, provider, clk) ==
    [counter |-> IF provider \in DOMAIN cs THEN cs[provider] ELSE ZeroCounter,
     counters |-> cs]

\* ensureCounter: the stored counter, a fresh one being stored first.
ensureCounter(cs, provider) ==
    IF provider \in DOMAIN cs THEN cs ELSE MapSet(cs, provider, ZeroCounter)

\* A daily test that counts a lapsed counter too.
DailyExceededAnyDay(cfg, counter, clk) ==
    cfg.daily_limit > 0 /\ counter.daily_count >= cfg.daily_limit

\* cfg.DailyLimit > 0 && counter.DailyDate == today &&
\* counter.DailyCount >= cfg.DailyLimit
DailyExceeded(cfg, counter, clk) ==
    /\ cfg.daily_limit > 0
    /\ counter.daily_date = Today(clk)
    /\ counter.daily_count >= cfg.daily_limit

\* cfg.MonthlyLimit > 0 && counter.MonthlyDate == month &&
\* counter.MonthlyCount >= cfg.MonthlyLimit
MonthlyExceeded(cfg, counter, clk) ==
    /\ cfg.monthly_limit > 0
    /\ counter.monthly_date = ThisMonth(clk)
    /\ counter.monthly_count >= cfg.monthly_limit

\* Check: the error it returns ("ok" for nil) and the counters it leaves.
CheckResult(cfgs, cs, provider, clk) ==
    IF provider \notin DOMAIN cfgs
    THEN [err |-> "ok", counters |-> cs]
    ELSE LET got == getOrResetCounter(cs, provider, clk)
             cfg == cfgs[provider]
         IN  [err |-> IF DailyExceeded(cfg, got.counter, clk) THEN "daily"
                      ELSE IF MonthlyExceeded(cfg, got.counter, clk) THEN "monthly"
                      ELSE "ok",
              counters |-> got.counters]

\* A Record that rolls the daily counter only.
RecordCounterDailyOnly(counter, clk) ==
    LET d == IF counter.daily_date # Today(clk)
             THEN [counter EXCEPT !.daily_count = 0, !.daily_date = Today(clk)]
             ELSE counter
    IN  [d EXCEPT !.daily_count = @ + 1, !.monthly_count = @ + 1,
                  !.monthly_date = ThisMonth(clk)]

\* Record's update of the provider's counter.
RecordCounter(counter, clk) ==
    LET d == IF counter.daily_date # Today(clk)
             THEN [counter EXCEPT !.daily_count = 0, !.daily_date = Today(clk)]
             ELSE counter
        m == IF d.monthly_date # ThisMonth(clk)
             THEN [d EXCEPT !.monthly_count = 0, !.monthly_date = ThisMonth(clk)]
             ELSE d
    IN  [m EXCEPT !.daily_count = @ + 1, !.monthly_count = @ + 1]

\* budgetData as save marshals it and load reads it.
BudgetData(cfgs, cs) ==
    [kind |-> "budget", config |-> cfgs, counters |-> cs]

\* Bytes of two writes through two handles on one file.
Mixed == [kind |-> "mixed"]

BudgetPath == "budget.json"
\* tempFile := bt.file + ".tmp"
BudgetTempPath == "budget.json.tmp"

\* The directory of the budget file: each name is bound to a file (0: to
\* none), and each file has its content.  A handle stays on its file when the
\* name is bound to another.
NoFile == 0

BudgetDir(f) ==
    IF f.kind = "absent"
    THEN [names |-> [p \in {BudgetPath, BudgetTempPath} |-> NoFile],
          inodes |-> <<>>]
    ELSE [names |-> [p \in {BudgetPath, BudgetTempPath} |->
                        IF p = BudgetPath THEN 1 ELSE NoFile],
          inodes |-> <<f>>]

\* os.ReadFile(path)
ContentOf(fs, path) ==
    IF fs.names[path] = NoFile THEN Absent ELSE fs.inodes[fs.names[path]]

\* os.WriteFile's open with O_WRONLY|O_CREATE|O_TRUNC: the file the name is
\* bound to is emptied, a new one being created when there is none.
OpenTrunc(fs, path) ==
    IF fs.names[path] = NoFile
    THEN [names |-> [fs.names EXCEPT ![path] = Len(fs.inodes) + 1],
          inodes |-> Append(fs.inodes, Truncated)]
    ELSE [fs EXCEPT !.inodes[fs.names[path]] = Truncated]

\* os.WriteFile's write through its handle, from offset 0: onto the bytes of
\* another write it leaves those bytes' tail behind when they were longer
\* (mixed says whether they were).  A write to a file that no name is bound
\* to any more is seen by nobody.
WriteAt(fs, ino, data, mixed) ==
    IF \A p \in DOMAIN fs.names : fs.names[p] # ino
    THEN fs
    ELSE [fs EXCEPT !.inodes[ino] =
            IF @ = Truncated \/ @ = data \/ ~mixed THEN data ELSE Mixed]

\* os.Rename on the budget directory; it fails when `from` is bound to no
\* file.  The file `to` was bound to is unlinked.
CanRename(fs, from) ==
    fs.names[from] # NoFile

RenameFile(fs, from, to) ==
    [names |-> [fs.names EXCEPT ![to] = fs.names[from], ![from] = NoFile],
     inodes |-> [i \in DOMAIN fs.inodes |->
                    IF i = fs.names[to] THEN Absent ELSE fs.inodes[i]]]

\* ------------------------------------------------------------ proxy data
\* Header values and model names are sequences of one-character strings.

\* strings.ToLower on the characters used here.
LowerChar(c) ==
    CASE c = "A" -> "a" [] c = "C" -> "c" [] c = "E" -> "e" [] c = "G" -> "g"
      [] c = "I" -> "i" [] c = "K" -> "k" [] c = "M" -> "m" [] c = "N" -> "n"
      [] c = "O" -> "o"
      [] c = "P" -> "p"
      [] c = "T" -> "t"
      [] OTHER -> c

ToLower(str) ==
    [i \in 1..Len(str) |-> LowerChar(str[i])]

\* strings.TrimSpace
TrimSpace(str) ==
    IF \A i \in 1..Len(str) : str[i] = " "
    THEN <<>>
    ELSE LET first == CHOOSE i \in 1..Len(str) :
                        str[i] # " " /\ \A j \in 1..(i - 1) : str[j] = " "
             last == CHOOSE i \in 1..Len(str) :
                        str[i] # " " /\ \A j \in (i + 1)..Len(str) : str[j] = " "
         IN  SubSeq(str, first, last)

\* strings.HasPrefix
HasPrefix(str, prefix) ==
    Len(prefix) <= Len(str) /\ SubSeq(str, 1, Len(prefix)) = prefix

\* The provider names, as written.
ProviderNames ==
    [openai |-> <<"o", "p", "e", "n", "a", "i">>,
     anthropic |-> <<"a", "n", "t", "h", "r", "o", "p", "i", "c">>,
     deepseek |-> <<"d", "e", "e", "p", "s", "e", "e", "k">>,
     gemini |-> <<"g", "e", "m", "i", "n", "i">>,
     zhipu |-> <<"z", "h", "i", "p", "u">>]

\* providerRoutes: AuthHeader, AuthPrefix and ExtraHeaders of each provider.
providerRoutes ==
    [openai |-> [AuthHeader |-> "Authorization", AuthPrefix |-> "Bearer ",
                 ExtraHeaders |-> <<>>],
     anthropic |-> [AuthHeader |-> "x-api-key", AuthPrefix |-> "",
                    ExtraHeaders |-> [p \in {"anthropic-version"} |-> "2023-06-01"]],
     deepseek |-> [AuthHeader |-> "Authorization", AuthPrefix |-> "Bearer ",
                   ExtraHeaders |-> <<>>],
     gemini |-> [AuthHeader |-> "x-goog-api-key", AuthPrefix |-> "",
                 ExtraHeaders |-> <<>>],
     zhipu |-> [AuthHeader |-> "Authorization", AuthPrefix |-> "Bearer ",
                ExtraHeaders |-> <<>>]]

\* _, ok := providerRoutes[header]
RouteNamed(str) ==
    {p \in DOMAIN providerRoutes : ProviderNames[p] = str}

\* modelPrefixMap
modelPrefixMap ==
    { [prefix |-> <<"g", "p", "t", "-">>, provider |-> "openai"],
      [prefix |-> <<"o", "1", "-">>, provider |-> "openai"],
      [prefix |-> <<"o", "3", "-">>, provider |-> "openai"],
      [prefix |-> <<"o", "4", "-">>, provider |-> "openai"],
      [prefix |-> <<"c", "l", "a", "u", "d", "e", "-">>, provider |-> "anthropic"],
      [prefix |-> <<"d", "e", "e", "p", "s", "e", "e", "k", "-">>, provider |-> "deepseek"],
      [prefix |-> <<"g", "e", "m", "i", "n", "i", "-">>, provider |-> "gemini"],
      [prefix |-> <<"g", "l", "m", "-">>, provider |-> "zhipu"] }

\* A request body: whether it is JSON, and its model field ("" when it has
\* none).
Body(json, model) ==
    [json |-> json, model |-> model]

\* A resolution that prefers the body's model to the header.
resolveProviderBodyFirst(header, body) ==
    LET model == ToLower(body.model)
        inferred == {e.provider : e \in {x \in modelPrefixMap : HasPrefix(model, x.prefix)}}
        named == RouteNamed(ToLower(TrimSpace(header)))
    IN  IF body.json /\ body.model # <<>> /\ inferred # {}
        THEN inferred
        ELSE IF header # <<>> THEN named ELSE {}

\* resolveProvider: the providers it can return; none is the error.  The
\* range over modelPrefixMap is in no fixed order, so each matching prefix
\* gives an outcome.
resolveProvider(header, body) ==
    IF header # <<>>
    THEN RouteNamed(ToLower(TrimSpace(header)))
    ELSE IF body.json /\ body.model # <<>>
    THEN {e.provider : e \in {x \in modelPrefixMap :
                                HasPrefix(ToLower(body.model), x.prefix)}}
    ELSE {}

\* http.Header's canonical form of the header names used here.
CanonicalHeaderKey(name) ==
    CASE name = "x-api-key" -> "X-Api-Key"
      [] name = "x-goog-api-key" -> "X-Goog-Api-Key"
      [] name = "anthropic-version" -> "Anthropic-Version"
      [] OTHER -> name

\* req.Header.Set(name, value)
HeaderSet(h, name, value) ==
    MapSet(h, CanonicalHeaderKey(name), value)

\* req.Header.Del(name)
HeaderDel(h, name) ==
    MapDelete(h, CanonicalHeaderKey(name))

\* for k, v := range route.ExtraHeaders { req.Header.Set(k, v) }
SetExtraHeaders(h, extra) ==
    [n \in DOMAIN h \cup {CanonicalHeaderKey(k) : k \in DOMAIN extra} |->
        IF \E k \in DOMAIN extra : CanonicalHeaderKey(k) = n
        THEN extra[CHOOSE k \in DOMAIN extra : CanonicalHeaderKey(k) = n]
        ELSE h[n]]

\* A Director that leaves the caller's Authorization in place.
DirectorKeepingAuthorization(h, route, apiKey) ==
    LET h1 == HeaderSet(h, route.AuthHeader, <<route.AuthPrefix, apiKey>>)
        h2 == SetExtraHeaders(h1, route.ExtraHeaders)
    IN  HeaderDel(HeaderDel(h2, "X-AKM-Provider"), "X-AKM-Key")

\* The Director: the headers of the request that goes upstream.
Director(h, route, apiKey) ==
    LET h1 == HeaderSet(h, route.AuthHeader, <<route.AuthPrefix, apiKey>>)
        h2 == SetExtraHeaders(h1, route.ExtraHeaders)
        h3 == HeaderDel(HeaderDel(h2, "X-AKM-Provider"), "X-AKM-Key")
    IN  IF route.AuthHeader # "Authorization"
        THEN HeaderDel(h3, "Authorization")
        ELSE h3

\* ListKeys(provider): the records it returns, in the order the map's
\* iteration gave them.
ListKeysMatches(cache, provider) ==
    {n \in DOMAIN cache : provider = "" \/ cache[n].provider = provider}

\* -------------------------------------------------------------- the state

VARIABLES
    masterKey,    \* KeyEncryption.masterKey (NoKey after ResetMasterKey)
    keysCache,    \* KeyStorage.keysCache: name -> record
    loadFailed,   \* KeyStorage.loadFailed
    files,        \* the data directory: keys.json and .keys_temp.json
    auditFile,    \* audit.jsonl, a sequence of tokens
    AuditErrors,  \* the package counter of failed audit appends
    backup,       \* the backup directory: its keys.json and audit.jsonl
    now,          \* the clock
    nonce,        \* source of fresh IVs
    w,            \* the call holding the write lock, and its position
    wret,         \* what the last mutating call returned
    r,            \* the read-side call in progress, and its position
    rret,         \* what the last read-side call returned
    crashed,      \* the process died
    added,        \* name -> the value of its last successful AddKey, until
                  \* a DeleteKey of the name succeeds
    keysFile0,    \* the keys file the store was constructed on
    nwrites,      \* mutating calls made
    nreads,       \* read-side calls made
    faults,       \* disk operations that failed
    config,       \* BudgetTracker.config: provider -> limits
    counters,     \* BudgetTracker.counters: provider -> counter
    clock,        \* the calendar date time.Now() falls on
    budgetFiles,  \* budget.json and budget.json.tmp
    savers,       \* the background saves Record has started, and their positions
    bw,           \* the SetConfig or ResetCounter holding the tracker's lock
    bret,         \* what the call on the tracker that has just returned gave
    nrecords,     \* Record calls made
    nconfigs,     \* SetConfig and ResetCounter calls made
    px,           \* the proxy's requests in progress: slot -> position
    budgetOnce,   \* what GetBudgetTracker's sync.Once has left: nothing yet,
                  \* the tracker, or no tracker
    nrequests,    \* requests the proxy has taken
    vf,           \* the VerifyAll call: its keys, results and goroutines
    nverifies,    \* VerifyAll calls made
    keychain,     \* the keyring entry apikey-manager / master_key
    cret,         \* what the last call on KeyEncryption returned
    ninits        \* Initialize calls made

\* The budget tracker.
budgetVars ==
    <<config, counters, clock, budgetFiles, savers, bw, bret, nrecords, nconfigs>>

\* The key store.
storeVars ==
    <<masterKey, keysCache, loadFailed, files, auditFile, AuditErrors, backup,
      now, nonce, w, wret, r, rret, added, keysFile0, nwrites, nreads>>

\* The proxy.
proxyVars ==
    <<px, budgetOnce, nrequests>>

\* The verifier.
verifyVars ==
    <<vf, nverifies>>

\* The keyring and the calls on KeyEncryption.
cryptoVars ==
    <<keychain, cret, ninits>>

\* The components that call the key store and the tracker, and the keyring.
restVars ==
    <<proxyVars, verifyVars, cryptoVars>>

vars ==
    <<storeVars, crashed, faults, budgetVars, restVars>>

\* What no operation of the key store assigns: the fields set at
\* construction, and the state of the other components.
fixedVars == <<loadFailed, keysFile0, budgetVars, restVars>>
\* The position and result of the mutating call.
writerVars == <<w, wret, added, nwrites>>
\* The position and result of the read-side call.
readerVars == <<r, rret, nreads>>

\* The writer's position: the call and its arguments, the map and the keys
\* file as the call found them, the bytes saveKeys encrypted, the audit
\* entries the call has appended, and the value of AuditErrors that an
\* increment in progress has loaded.
Idle ==
    [pc |-> "idle", op |-> "none", name |-> <<>>, value |-> "", before |-> <<>>,
     keysBefore |-> Absent, blob |-> Absent, logged |-> <<>>, renamed |-> FALSE,
     seen |-> 0]

\* The reader's position: the call and its arguments, the record GetKeyValue
\* looked up (and the value last added under its name), the names a batch
\* read has yet to visit, the result so far and the entries appended.
RIdle ==
    [pc |-> "idle", op |-> "none", name |-> <<>>, project |-> "",
     key |-> <<>>, expected |-> <<>>, todo |-> {}, result |-> <<>>,
     logged |-> <<>>, logfail |-> FALSE,
     filter |-> [provider |-> "", keyNames |-> {}], mark |-> 0, seen |-> 0]

NoRet ==
    [op |-> "none"]

\* A record as an earlier run of the store wrote it.
StoredKey(name, k, v) ==
    NewAPIKey(name, Encrypt(k, 0, v), "openai", 0)

\* Keys files a store can be constructed on: none, an encrypted one, a
\* legacy plaintext one (one of its values made under another master key),
\* one encrypted under another master key, and one that is not a keys file.
InitialKeysFiles ==
    { Absent,
      EncFile(Encrypt(K1, 0, KeysFilePayload(CacheOf({StoredKey(OPENAI_KEY, K1, "v0")}), 0))),
      PlainFile(KeysFilePayload(CacheOf({StoredKey(OPENAI_KEY, K1, "v0"),
                                         StoredKey(X9, K0, "v0")}), 0)),
      EncFile(Encrypt(K0, 0, KeysFilePayload(CacheOf({StoredKey(OPENAI_KEY, K0, "v0")}), 0))),
      Garbage }

\* NewKeyStorage: the store after construction on the keys file f.
StoreInit(f) ==
    /\ masterKey = K1
    /\ keysCache = loadKeys(f, K1).cache
    /\ loadFailed = loadKeys(f, K1).err
    /\ files = [p \in {KeysPath, TempPath} |-> IF p = KeysPath THEN f ELSE Absent]
    /\ keysFile0 = f
    /\ auditFile = <<>>
    /\ AuditErrors = 0
    /\ backup = [keys |-> Absent, audit |-> <<>>]
    /\ now = 0
    /\ nonce = 1
    /\ w = Idle
    /\ wret = NoRet
    /\ r = RIdle
    /\ rret = NoRet
    /\ added = <<>>
    /\ nwrites = 0
    /\ nreads = 0

\* The tracker's lock is free.
BIdle ==
    [pc |-> "idle", op |-> "none", provider |-> "", cfgBefore |-> <<>>,
     ctrBefore |-> <<>>, fileBefore |-> Absent, data |-> Absent, ino |-> NoFile]

\* newBudgetTracker: the tracker after construction on the budget file f,
\* which is absent or loads.
BudgetInit(f) ==
    /\ config = IF f.kind = "budget" THEN f.config ELSE <<>>
    /\ counters = IF f.kind = "budget" THEN f.counters ELSE <<>>
    /\ clock = [month |-> 1, day |-> 1]
    /\ budgetFiles = BudgetDir(f)
    /\ savers = <<>>
    /\ bw = BIdle
    /\ bret = NoRet
    /\ nrecords = 0
    /\ nconfigs = 0

\* Requests the proxy serves at a time.
MaxSlots == 1
\* Requests the proxy takes in a behaviour.
MaxRequests == 2

Slots ==
    1..MaxSlots

\* A slot of the proxy with no request in it.  A request's position holds
\* its headers and body, the provider resolved, whether the handler holds a
\* tracker, the X-AKM-Key header, the records ListKeys returned that the
\* loop has yet to visit, the record GetKeyValue looked up, the decrypted
\* value, the audit entries appended for it, the headers sent upstream, the
\* number of upstream calls and of Record calls made for it, and the status
\* answered.
PIdle ==
    [pc |-> "idle", headers |-> <<>>, body |-> Body(FALSE, <<>>),
     provider |-> "", budget |-> "none", keyName |-> <<>>, listed |-> <<>>,
     keys |-> <<>>, key |-> <<>>, apiKey |-> <<>>, logged |-> <<>>,
     out |-> <<>>, calls |-> 0, records |-> 0, status |-> 0, errType |-> ""]

\* The proxy before its first request.
ProxyInit ==
    /\ px = [i \in Slots |-> PIdle]
    /\ budgetOnce = "unset"
    /\ nrequests = 0

\* No VerifyAll call has been made.
VIdle ==
    [pc |-> "idle", keys |-> <<>>, results |-> <<>>, g |-> <<>>]

VerifyInit ==
    /\ vf = VIdle
    /\ nverifies = 0

\* keyring.Get finds no entry.
NoEntry == [kind |-> "none"]
\* The entry is the empty string, or a string that is not the base64 of a
\* Fernet key.
EmptyEntry == [kind |-> "empty"]
UndecodableEntry == [kind |-> "undecodable"]
\* base64(key.Encode())
StoredMasterKey(key) == [kind |-> "key", key |-> key]

\* No call on KeyEncryption has returned.
NoCall == [op |-> "none"]

\* The keyring as the process finds it.
CryptoInit(entry) ==
    /\ keychain = entry
    /\ cret = NoCall
    /\ ninits = 0

\* The key store on its own: no budget file, and no call on the tracker.
Init ==
    /\ \E f \in InitialKeysFiles : StoreInit(f)
    /\ crashed = FALSE
    /\ faults = 0
    /\ BudgetInit(Absent)
    /\ ProxyInit
    /\ VerifyInit
    /\ CryptoInit(StoredMasterKey(K1))

\* ------------------------------------------------------- mutating calls

\* AddKey's value, provider and options: a plain add, and an add of an empty
\* value with every option given.
AddInputs ==
    { [value |-> "v1", provider |-> "openai", opts |-> <<>>],
      [value |-> "", provider |-> "anthropic",
       opts |-> [description |-> "d1", source_project |-> "s1", tags |-> <<"t1">>]] }

Str(x) == [t |-> "string", v |-> x]

\* The updates maps UpdateKey is called with: empty, one field, several
\* fields, and a value of the wrong type.
UpdateMaps ==
    { <<>>,
      [is_active |-> [t |-> "bool", v |-> FALSE]],
      [provider |-> Str("anthropic"), description |-> Str("d2"),
       source_project |-> Str("s2"), tags |-> [t |-> "strings", v |-> <<"t2">>]],
      [is_active |-> Str("false")] }

\* v, ok := updates[field].(type)
Has(updates, field, type) ==
    field \in DOMAIN updates /\ updates[field].t = type

\* UpdateKey's assignments to the record.
ApplyUpdates(key, updates, t) ==
    [key EXCEPT
        !.provider = IF Has(updates, "provider", "string")
                     THEN updates["provider"].v ELSE @,
        !.description = IF Has(updates, "description", "string")
                        THEN <<updates["description"].v>> ELSE @,
        !.source_project = IF Has(updates, "source_project", "string")
                           THEN <<updates["source_project"].v>> ELSE @,
        !.tags = IF Has(updates, "tags", "strings")
                 THEN updates["tags"].v ELSE @,
        !.is_active = IF Has(updates, "is_active", "bool")
                      THEN updates["is_active"].v ELSE @,
        !.updated_at = t]

\* A disk operation succeeds, or fails while failures remain in the bound.
DiskOutcome(ok) ==
    IF ok
    THEN faults' = faults
    ELSE faults < MaxFaults /\ faults' = faults + 1

\* s.mu.Lock(): no call holds the write lock and no batch read holds the
\* read lock.
CanLock ==
    /\ ~crashed
    /\ w.pc = "idle"
    /\ r.pc \notin {"batch", "batchnl"}

\* The call returns without having changed anything.
Reject(op, name, value, err) ==
    /\ wret' = [op |-> op, name |-> name, value |-> value, err |-> err,
                before |-> keysCache, keysBefore |-> files[KeysPath],
                blob |-> Absent, logged |-> <<>>, logfail |-> FALSE]
    /\ UNCHANGED <<keysCache, now, nonce, w, added>>

\* The call has changed the map and goes on to saveKeys.
Proceed(op, name, value, cache) ==
    /\ keysCache' = cache
    /\ w' = [Idle EXCEPT !.pc = "save", !.op = op, !.name = name,
                         !.value = value, !.before = keysCache,
                         !.keysBefore = files[KeysPath]]
    /\ wret' = NoRet
    /\ UNCHANGED added

AddKey(name, value, provider, opts) ==
    /\ CanLock
    /\ nwrites < MaxWrites
    /\ nwrites' = nwrites + 1
    /\ UNCHANGED <<masterKey, files, auditFile, AuditErrors, backup, crashed,
                   faults, fixedVars, readerVars>>
    /\ IF ~ValidateKeyName(name)
       THEN Reject("AddKey", name, value, "invalid")
       ELSE IF masterKey = NoKey
       THEN Reject("AddKey", name, value, "encrypt")
       ELSE /\ now' = now + 1
            /\ nonce' = nonce + 1
            /\ Proceed("AddKey", name, value,
                   MapSet(keysCache, name,
                       ApplyOptions(
                           NewAPIKey(name, Encrypt(masterKey, nonce, value),
                                     provider, now'),
                           opts)))

UpdateKey(name, updates) ==
    /\ CanLock
    /\ nwrites < MaxWrites
    /\ nwrites' = nwrites + 1
    /\ UNCHANGED <<masterKey, files, auditFile, AuditErrors, backup, crashed,
                   faults, fixedVars, readerVars>>
    /\ IF name \notin DOMAIN keysCache
       THEN Reject("UpdateKey", name, "", "notfound")
       ELSE /\ now' = now + 1
            /\ UNCHANGED nonce
            /\ Proceed("UpdateKey", name, "",
                   MapSet(keysCache, name,
                       ApplyUpdates(keysCache[name], updates, now')))

DeleteKey(name) ==
    /\ CanLock
    /\ nwrites < MaxWrites
    /\ nwrites' = nwrites + 1
    /\ UNCHANGED <<masterKey, files, auditFile, AuditErrors, backup, crashed,
                   faults, fixedVars, readerVars>>
    /\ IF name \notin DOMAIN keysCache
       THEN Reject("DeleteKey", name, "", "notfound")
       ELSE /\ UNCHANGED <<now, nonce>>
            /\ Proceed("DeleteKey", name, "", MapDelete(keysCache, name))

\* What the caller of saveKeys does to the map when saveKeys fails: AddKey
\* deletes the name, UpdateKey and DeleteKey return at once.
OnSaveError(op, cache, name) ==
    IF op = "AddKey" THEN MapDelete(cache, name) ELSE cache

\* saveKeys returned err, and the call returns it.
SaveFailed(err) ==
    /\ keysCache' = OnSaveError(w.op, keysCache, w.name)
    /\ w' = Idle
    /\ wret' = [op |-> w.op, name |-> w.name, value |-> w.value, err |-> err,
                before |-> w.before, keysBefore |-> w.keysBefore,
                blob |-> w.blob, logged |-> w.logged, logfail |-> FALSE]
    /\ UNCHANGED added

\* A save that never refuses.
RefusesSaveNever(failed) ==
    FALSE

\* if s.loadFailed { return error }
RefusesSave(failed) ==
    failed

\* saveKeys up to the opening of the temp file: the refusal of a load-failed
\* store, the encryption of the serialised map, and os.WriteFile's
\* create-and-truncate of the temp file.
SaveOpen ==
    /\ ~crashed
    /\ w.pc = "save"
    /\ UNCHANGED <<masterKey, auditFile, AuditErrors, backup, now, crashed,
                   nwrites, fixedVars, readerVars>>
    /\ IF RefusesSave(loadFailed)
       THEN SaveFailed("refused") /\ UNCHANGED <<files, nonce, faults>>
       ELSE IF masterKey = NoKey
       THEN SaveFailed("encrypt") /\ UNCHANGED <<files, nonce, faults>>
       ELSE \E ok \in BOOLEAN :
              /\ DiskOutcome(ok)
              /\ IF ok
                 THEN /\ files' = [files EXCEPT ![TempPath] = Truncated]
                      /\ nonce' = nonce + 1
                      /\ w' = [w EXCEPT
                                 !.pc = "write",
                                 !.blob = EncFile(Encrypt(masterKey, nonce,
                                              KeysFilePayload(keysCache, now)))]
                      /\ UNCHANGED <<keysCache, wret, added>>
                 ELSE SaveFailed("write") /\ UNCHANGED <<files, nonce>>

\* os.WriteFile's write of the encrypted bytes to the temp file.
SaveWrite ==
    /\ ~crashed
    /\ w.pc = "write"
    /\ UNCHANGED <<masterKey, auditFile, AuditErrors, backup, now, nonce,
                   crashed, nwrites, fixedVars, readerVars>>
    /\ \E ok \in BOOLEAN :
          /\ DiskOutcome(ok)
          /\ IF ok
             THEN /\ files' = [files EXCEPT ![TempPath] = w.blob]
                  /\ w' = [w EXCEPT !.pc = "rename"]
                  /\ UNCHANGED <<keysCache, wret, added>>
             ELSE SaveFailed("write") /\ UNCHANGED files

\* os.Rename(tempFile, s.keysFile), and os.Remove(tempFile) when it fails.
SaveRename ==
    /\ ~crashed
    /\ w.pc = "rename"
    /\ UNCHANGED <<masterKey, auditFile, AuditErrors, backup, now, nonce,
                   crashed, nwrites, fixedVars, readerVars>>
    /\ \E ok \in BOOLEAN :
          /\ DiskOutcome(ok)
          /\ IF ok
             THEN /\ files' = Rename(files, TempPath, KeysPath)
                  /\ w' = [w EXCEPT !.pc = "log", !.renamed = TRUE]
                  /\ UNCHANGED <<keysCache, wret, added>>
             ELSE /\ files' = Remove(files, TempPath)
                  /\ SaveFailed("rename")

\* ----------------------------------------------------------------- audit

\* logUsage up to the write of the entry, with its three outcomes: the entry
\* is written; os.OpenFile fails; f.Write fails part-way.  Both failures
\* are counted and the caller goes on.
LogWrite(out, entry) ==
    /\ DiskOutcome(out = "ok")
    /\ CASE out = "ok" ->
              /\ auditFile' = WriteAppending(auditFile, entry)
              /\ UNCHANGED AuditErrors
         [] out = "openfail" ->
              /\ AuditErrors' = AuditErrors + 1
              /\ UNCHANGED auditFile
         [] out = "writefail" ->
              /\ AuditErrors' = AuditErrors + 1
              /\ auditFile' = WriteAppending(auditFile, Torn)

LogOutcomes == {"ok", "openfail", "writefail"}

\* f.WriteString("\n"), its error dropped.
LogEnd(ok) ==
    /\ DiskOutcome(ok)
    /\ auditFile' = IF ok THEN WriteAppending(auditFile, NL) ELSE auditFile

\* Every mutating call logged as an add.
AuditActionAlwaysAdd(op) ==
    "add"

\* The action a mutating call logs.
AuditAction(op) ==
    CASE op = "AddKey" -> "add"
      [] op = "UpdateKey" -> "update"
      [] op = "DeleteKey" -> "delete"

\* A mutating call that returns the audit failure as its error.
SucceedUnlessAuditFailed(logfail) ==
    /\ w' = Idle
    /\ wret' = [op |-> w.op, name |-> w.name, value |-> w.value,
                err |-> IF logfail THEN "audit" ELSE "ok",
                before |-> w.before, keysBefore |-> w.keysBefore,
                blob |-> w.blob, logged |-> w.logged, logfail |-> logfail]
    /\ added' = CASE logfail -> added
                  [] w.op = "AddKey" -> MapSet(added, w.name, w.value)
                  [] w.op = "DeleteKey" -> MapDelete(added, w.name)
                  [] OTHER -> added

\* The mutating call returns success.
Succeed(logfail) ==
    /\ w' = Idle
    /\ wret' = [op |-> w.op, name |-> w.name, value |-> w.value, err |-> "ok",
                before |-> w.before, keysBefore |-> w.keysBefore,
                blob |-> w.blob, logged |-> w.logged, logfail |-> logfail]
    /\ added' = CASE w.op = "AddKey" -> MapSet(added, w.name, w.value)
                  [] w.op = "DeleteKey" -> MapDelete(added, w.name)
                  [] OTHER -> added

\* s.logUsage(name, action, "system") of a mutating call, after saveKeys.
WriterLog ==
    /\ ~crashed
    /\ w.pc = "log"
    /\ UNCHANGED <<masterKey, keysCache, files, backup, now, nonce, crashed,
                   nwrites, fixedVars, readerVars>>
    /\ \E out \in LogOutcomes :
          LET entry == SignedLog(w.name, AuditAction(w.op), "system", now,
                                 masterKey)
          IN  /\ LogWrite(out, entry)
              /\ IF out = "ok"
                 THEN /\ w' = [w EXCEPT !.pc = "nl", !.logged = Append(@, entry)]
                      /\ UNCHANGED <<wret, added>>
                 ELSE Succeed(TRUE)

\* The end of the line, and the call returns.
WriterLogEnd ==
    /\ ~crashed
    /\ w.pc = "nl"
    /\ UNCHANGED <<masterKey, keysCache, files, AuditErrors, backup, now, nonce,
                   crashed, nwrites, fixedVars, readerVars>>
    /\ \E ok \in BOOLEAN : LogEnd(ok)
    /\ Succeed(FALSE)

\* ------------------------------------------------------- read-side calls

Projects == {"proxy"}

\* s.mu.RLock(): no call holds the write lock.
CanRLock ==
    /\ ~crashed
    /\ r.pc = "idle"
    /\ w.pc = "idle"

\* The read-side call returns.
Return(err, result, logfail) ==
    /\ r' = RIdle
    /\ rret' = [op |-> r.op, name |-> r.name, project |-> r.project, err |-> err,
                key |-> r.key, expected |-> r.expected, result |-> result,
                logged |-> r.logged, logfail |-> logfail]

\* GetKeyValue under the read lock: the lookup of the record.
GetKeyValue(name, project) ==
    /\ CanRLock
    /\ nreads < MaxReads
    /\ nreads' = nreads + 1
    /\ UNCHANGED <<masterKey, keysCache, files, auditFile, AuditErrors, backup,
                   now, nonce, crashed, faults, fixedVars, writerVars>>
    /\ IF name \notin DOMAIN keysCache
       THEN /\ r' = RIdle
            /\ rret' = [op |-> "GetKeyValue", name |-> name, project |-> project,
                        err |-> "notfound", key |-> <<>>,
                        expected |-> IF name \in DOMAIN added
                                     THEN <<added[name]>> ELSE <<>>,
                        result |-> <<>>, logged |-> <<>>, logfail |-> FALSE]
       ELSE /\ r' = [RIdle EXCEPT !.pc = "decrypt", !.op = "GetKeyValue",
                                  !.name = name, !.project = project,
                                  !.key = <<keysCache[name]>>,
                                  !.expected = IF name \in DOMAIN added
                                               THEN <<added[name]>> ELSE <<>>]
            /\ rret' = NoRet

\* GetKeyValue outside the lock: the decryption, then logUsage(name, "read",
\* project).
GetKeyValueDecrypt ==
    /\ ~crashed
    /\ r.pc = "decrypt"
    /\ UNCHANGED <<masterKey, keysCache, files, backup, now, nonce, crashed,
                   nreads, fixedVars, writerVars>>
    /\ IF ~DecryptOk(masterKey, r.key[1].value_encrypted)
       THEN /\ Return("decrypt", <<>>, FALSE)
            /\ UNCHANGED <<auditFile, AuditErrors, faults>>
       ELSE \E out \in LogOutcomes :
              LET entry == SignedLog(r.name, "read", r.project, now, masterKey)
                  value == <<r.key[1].value_encrypted.pt>>
              IN  /\ LogWrite(out, entry)
                  /\ IF out = "ok"
                     THEN /\ r' = [r EXCEPT !.pc = "nl", !.result = value,
                                     !.logged = Append(@, entry)]
                          /\ UNCHANGED rret
                     ELSE Return("ok", value, TRUE)

\* The end of the line of a GetKeyValue or Backup entry, and the call returns.
ReaderLogEnd ==
    /\ ~crashed
    /\ r.pc = "nl"
    /\ UNCHANGED <<masterKey, keysCache, files, AuditErrors, backup, now, nonce,
                   crashed, nreads, fixedVars, writerVars>>
    /\ \E ok \in BOOLEAN : LogEnd(ok)
    /\ Return("ok", r.result, FALSE)

\* The filters of getKeysBatch the batch reads are called with: provider,
\* name list and the action logged.
BatchInputs ==
    { [provider |-> "", keyNames |-> {}, action |-> "inject"],
      [provider |-> "openai", keyNames |-> {}, action |-> "export"],
      [provider |-> "", keyNames |-> {X9}, action |-> "export"],
      [provider |-> "anthropic", keyNames |-> {OPENAI_KEY, X9}, action |-> "inject"] }

\* A getKeysBatch that does not look at the name list.
BatchMatchesAnyName(cache, provider, keyNames) ==
    { n \in DOMAIN cache : provider = "" \/ cache[n].provider = provider }

\* The records getKeysBatch does not skip.
BatchMatches(cache, provider, keyNames) ==
    { n \in DOMAIN cache :
        /\ provider = "" \/ cache[n].provider = provider
        /\ keyNames = {} \/ n \in keyNames }

\* GetKeysForInjection / GetKeysForExport: getKeysBatch takes the read lock
\* and keeps it until it returns.
GetKeysBatch(project, provider, keyNames, action) ==
    /\ CanRLock
    /\ nreads < MaxReads
    /\ nreads' = nreads + 1
    /\ UNCHANGED <<masterKey, keysCache, files, auditFile, AuditErrors, backup,
                   now, nonce, crashed, faults, fixedVars, writerVars>>
    /\ r' = [RIdle EXCEPT !.pc = "batch", !.op = action, !.project = project,
                          !.filter = [provider |-> provider, keyNames |-> keyNames],
                          !.mark = Len(auditFile),
                          !.todo = BatchMatches(keysCache, provider, keyNames)]
    /\ rret' = NoRet

\* One iteration of getKeysBatch's loop over the map, in the map's order: the
\* decryption, result[name] = value and logUsage(name, action, project); or
\* the return after the loop.
BatchNext ==
    /\ ~crashed
    /\ r.pc = "batch"
    /\ UNCHANGED <<masterKey, keysCache, files, backup, now, nonce, crashed,
                   nreads, fixedVars, writerVars>>
    /\ IF r.todo = {}
       THEN /\ Return("ok", r.result, r.logfail)
            /\ UNCHANGED <<auditFile, AuditErrors, faults>>
       ELSE \E n \in r.todo :
              IF ~DecryptOk(masterKey, keysCache[n].value_encrypted)
              THEN /\ Return("decrypt", <<>>, r.logfail)
                   /\ UNCHANGED <<auditFile, AuditErrors, faults>>
              ELSE \E out \in LogOutcomes :
                     LET entry == SignedLog(n, r.op, r.project, now, masterKey)
                     IN  /\ LogWrite(out, entry)
                         /\ r' = [r EXCEPT
                                    !.pc = IF out = "ok" THEN "batchnl" ELSE "batch",
                                    !.todo = @ \ {n},
                                    !.result = MapSet(@, n,
                                                 keysCache[n].value_encrypted.pt),
                                    !.logged = IF out = "ok"
                                               THEN Append(@, entry) ELSE @,
                                    !.logfail = @ \/ out # "ok"]
                         /\ UNCHANGED rret

\* The end of the line of a batch entry; the loop goes on.
BatchLogEnd ==
    /\ ~crashed
    /\ r.pc = "batchnl"
    /\ UNCHANGED <<masterKey, keysCache, files, AuditErrors, backup, now, nonce,
                   crashed, nreads, rret, fixedVars, writerVars>>
    /\ \E ok \in BOOLEAN : LogEnd(ok)
    /\ r' = [r EXCEPT !.pc = "batch"]

\* Backup: os.MkdirAll(backupDir) and the copy of the keys file, when there
\* is one.  It takes no lock.
Backup ==
    /\ ~crashed
    /\ r.pc = "idle"
    /\ nreads < MaxReads
    /\ nreads' = nreads + 1
    /\ UNCHANGED <<masterKey, keysCache, files, auditFile, AuditErrors, now,
                   nonce, crashed, fixedVars, writerVars>>
    /\ \E ok \in BOOLEAN :
          /\ DiskOutcome(ok)
          /\ IF ok
             THEN /\ backup' = [backup EXCEPT
                                  !.keys = IF files[KeysPath].kind = "absent"
                                           THEN @ ELSE files[KeysPath]]
                  /\ r' = [RIdle EXCEPT !.pc = "backupaudit", !.op = "Backup",
                                        !.name = <<"*">>, !.project = "system"]
                  /\ rret' = NoRet
             ELSE /\ UNCHANGED backup
                  /\ r' = RIdle
                  /\ rret' = [op |-> "Backup", name |-> <<"*">>,
                              project |-> "system", err |-> "io", key |-> <<>>,
                              expected |-> <<>>, result |-> <<>>,
                              logged |-> <<>>, logfail |-> FALSE]

\* Backup: the copy of the audit file.
BackupAudit ==
    /\ ~crashed
    /\ r.pc = "backupaudit"
    /\ UNCHANGED <<masterKey, keysCache, files, auditFile, AuditErrors, now,
                   nonce, crashed, nreads, fixedVars, writerVars>>
    /\ \E ok \in BOOLEAN :
          /\ DiskOutcome(ok)
          /\ IF ok
             THEN /\ backup' = [backup EXCEPT !.audit = auditFile]
                  /\ r' = [r EXCEPT !.pc = "backuplog"]
                  /\ UNCHANGED rret
             ELSE /\ UNCHANGED backup
                  /\ Return("io", <<>>, FALSE)

\* Backup: s.logUsage("*", "backup", "system").
BackupLog ==
    /\ ~crashed
    /\ r.pc = "backuplog"
    /\ UNCHANGED <<masterKey, keysCache, files, backup, now, nonce, crashed,
                   nreads, fixedVars, writerVars>>
    /\ \E out \in LogOutcomes :
          LET entry == SignedLog(r.name, "backup", r.project, now, masterKey)
          IN  /\ LogWrite(out, entry)
              /\ IF out = "ok"
                 THEN /\ r' = [r EXCEPT !.pc = "nl", !.logged = Append(@, entry)]
                      /\ UNCHANGED rret
                 ELSE Return("ok", <<>>, TRUE)

\* strings.Split(strings.TrimSpace(data), "\n"), the empty lines skipped: the
\* lines of the audit file, each the tokens between two line ends.
RECURSIVE SplitLines(_, _, _)
SplitLines(tokens, line, lines) ==
    IF tokens = <<>>
    THEN IF line = <<>> THEN lines ELSE Append(lines, line)
    ELSE IF Head(tokens).t = "nl"
    THEN SplitLines(Tail(tokens), <<>>,
                    IF line = <<>> THEN lines ELSE Append(lines, line))
    ELSE SplitLines(Tail(tokens), Append(line, Head(tokens)), lines)

\* The json tags of models.KeyUsageLog, as sequences of characters.
LogTags ==
    [key_name |-> <<"k", "e", "y", "_", "n", "a", "m", "e">>,
     project |-> <<"p", "r", "o", "j", "e", "c", "t">>,
     action |-> <<"a", "c", "t", "i", "o", "n">>,
     timestamp |-> <<"t", "i", "m", "e", "s", "t", "a", "m", "p">>,
     signature |-> <<"s", "i", "g", "n", "a", "t", "u", "r", "e">>]

\* json.Marshal(log): the object's members in the struct's order.  logUsage
\* always sets log.Signature, so the signature member is written also when
\* the signature is "".
MarshalLog(e) ==
    [t |-> "raw", wellFormed |-> TRUE, damage |-> "none",
     members |-> << [name |-> LogTags.key_name, value |-> e.key_name],
                    [name |-> LogTags.project, value |-> e.project],
                    [name |-> LogTags.action, value |-> e.action],
                    [name |-> LogTags.timestamp, value |-> e.timestamp],
                    [name |-> LogTags.signature, value |-> e.signature] >>]

\* encoding/json's choice of the member for a struct field: the name equal
\* to the tag, or else one equal to it under case folding; the last such
\* member wins, and a field with no member keeps its zero value.
MemberOf(members, tag, zero) ==
    LET match == {i \in 1..Len(members) : ToLower(members[i].name) = ToLower(tag)}
    IN  IF match = {}
        THEN zero
        ELSE members[CHOOSE i \in match : \A j \in match : j <= i].value

\* json.Unmarshal([]byte(line), &log) failed.
ParseError == [t |-> "error"]

\* json.Unmarshal([]byte(line), &log): members of other names are ignored;
\* a nil Signature and an empty one are both <<>>.
Unmarshal(raw) ==
    IF ~raw.wellFormed
    THEN ParseError
    ELSE [t |-> "entry",
          key_name |-> MemberOf(raw.members, LogTags.key_name, <<>>),
          project |-> MemberOf(raw.members, LogTags.project, ""),
          action |-> MemberOf(raw.members, LogTags.action, ""),
          timestamp |-> MemberOf(raw.members, LogTags.timestamp, 0),
          signature |-> MemberOf(raw.members, LogTags.signature, <<>>)]

\* VerifyAuditLogs' verdict on one line: a line that is not one JSON object
\* does not parse and is tampered; an entry without signature is unsigned;
\* otherwise the signature over the fields read decides.
ClassifyLine(line, mk) ==
    IF Len(line) # 1 \/ line[1].t \notin {"entry", "raw"}
    THEN "tampered"
    ELSE LET raw == IF line[1].t = "entry" THEN MarshalLog(line[1]) ELSE line[1]
             log == Unmarshal(raw)
         IN  IF log = ParseError
             THEN "tampered"
             ELSE IF log.signature = <<>>
             THEN "unsigned"
             ELSE IF VerifySignature(mk, Canonical(log), log.signature)
             THEN "verified"
             ELSE "tampered"

\* The counts VerifyAuditLogs returns.
AuditCounts(audit, mk) ==
    LET lines == SplitLines(audit, <<>>, <<>>)
        count(c) == Cardinality({i \in 1..Len(lines) : ClassifyLine(lines[i], mk) = c})
    IN  [total |-> Len(lines), verified |-> count("verified"),
         unsigned |-> count("unsigned"), tampered |-> count("tampered")]

\* VerifyAuditLogs: one read of the audit file.  It takes no lock.
VerifyAuditLogs ==
    /\ ~crashed
    /\ r.pc = "idle"
    /\ nreads < MaxReads
    /\ nreads' = nreads + 1
    /\ UNCHANGED <<masterKey, keysCache, files, auditFile, AuditErrors, backup,
                   now, nonce, crashed, r, fixedVars, writerVars>>
    /\ \E ok \in BOOLEAN :
          /\ DiskOutcome(ok)
          /\ rret' = [op |-> "VerifyAuditLogs", name |-> <<>>, project |-> "",
                      err |-> IF ok THEN "ok" ELSE "io", key |-> <<>>,
                      expected |-> <<>>,
                      result |-> IF ok THEN AuditCounts(auditFile, masterKey)
                                 ELSE [total |-> 0, verified |-> 0,
                                       unsigned |-> 0, tampered |-> 0],
                      logged |-> <<>>, logfail |-> FALSE]

\* ------------------------------------------------- audit files as found

\* The lines of the audit files VerifyAuditLogs is given.
MaxAuditLines == 3

\* The ways one byte of a written line is changed: in the key name's value,
\* in the signature's value, in the name of the signature member, in the
\* case of a letter of the name of the key_name member, and in the syntax
\* of the object.
Corruptions == {"value", "sigvalue", "signame", "namecase", "syntax"}

\* members with the name of the member of that tag changed in its first
\* character.
RenameMember(members, tag, c) ==
    [i \in 1..Len(members) |->
        IF members[i].name = tag
        THEN [members[i] EXCEPT !.name = [@ EXCEPT ![1] = c]]
        ELSE members[i]]

\* members with a character of the value of the member of that tag changed.
DamageValue(members, tag, v) ==
    [i \in 1..Len(members) |->
        IF members[i].name = tag
        THEN [members[i] EXCEPT !.value = v]
        ELSE members[i]]

\* The written line raw with one byte changed.
CorruptByte(raw, kind) ==
    LET m == raw.members
    IN  [raw EXCEPT
            !.damage = kind,
            !.wellFormed = (kind # "syntax"),
            !.members =
                CASE kind = "value" ->
                        DamageValue(m, LogTags.key_name,
                            [m[1].value EXCEPT ![1] = "#"])
                  [] kind = "sigvalue" ->
                        DamageValue(m, LogTags.signature,
                            <<[m[5].value[1] EXCEPT !.msg = <<>>]>>)
                  [] kind = "signame" -> RenameMember(m, LogTags.signature, "x")
                  [] kind = "namecase" -> RenameMember(m, LogTags.key_name, "K")
                  [] OTHER -> m]

\* The lines of the audit files: an entry logUsage wrote under this master
\* key, an entry without signature, the entry with one byte changed, and a
\* torn line.
AuditLines ==
    LET entry == SignedLog(X9, "read", "proxy", 1, K1)
    IN  {entry, [entry EXCEPT !.signature = <<>>], Torn}
        \cup {CorruptByte(MarshalLog(entry), kind) : kind \in Corruptions}

RECURSIVE SeqsUpTo(_, _)
SeqsUpTo(S, n) ==
    IF n = 0
    THEN {<<>>}
    ELSE LET shorter == SeqsUpTo(S, n - 1)
         IN  shorter \cup {Append(q, x) : q \in shorter, x \in S}

RECURSIVE JoinLines(_)
JoinLines(lines) ==
    IF lines = <<>>
    THEN <<>>
    ELSE <<Head(lines), NL>> \o JoinLines(Tail(lines))

AuditFiles ==
    {JoinLines(lines) : lines \in SeqsUpTo(AuditLines, MaxAuditLines)}

\* The store opened on a data directory that has an audit file.
AuditSpecInit ==
    /\ masterKey = K1
    /\ keysCache = loadKeys(Absent, K1).cache
    /\ loadFailed = loadKeys(Absent, K1).err
    /\ files = [p \in {KeysPath, TempPath} |-> Absent]
    /\ keysFile0 = Absent
    /\ auditFile \in AuditFiles
    /\ AuditErrors = 0
    /\ backup = [keys |-> Absent, audit |-> <<>>]
    /\ now = 0
    /\ nonce = 1
    /\ w = Idle
    /\ wret = NoRet
    /\ r = RIdle
    /\ rret = NoRet
    /\ added = <<>>
    /\ nwrites = 0
    /\ nreads = 0
    /\ crashed = FALSE
    /\ faults = 0
    /\ BudgetInit(Absent)
    /\ ProxyInit
    /\ VerifyInit
    /\ CryptoInit(StoredMasterKey(K1))

SpecAudit ==
    AuditSpecInit /\ [][VerifyAuditLogs]_vars

\* ----------------------------------------------------------- environment

\* The process dies while a mutating call is in progress.
Crash ==
    /\ ~crashed
    /\ w.pc # "idle"
    /\ crashed' = TRUE
    /\ UNCHANGED <<masterKey, keysCache, files, auditFile, AuditErrors, backup,
                   now, nonce, faults, fixedVars, writerVars, readerVars>>

\* KeyEncryption.ResetMasterKey: the key is deleted from the keychain and
\* dropped.
ResetMasterKey ==
    /\ ~crashed
    /\ masterKey # NoKey
    /\ keychain # NoEntry
    /\ keychain' = NoEntry
    /\ masterKey' = NoKey
    /\ cret' = [op |-> "ResetMasterKey", err |-> "ok", before |-> keychain,
                keyBefore |-> masterKey]
    /\ UNCHANGED <<keysCache, files, auditFile, AuditErrors, backup, now, nonce,
                   crashed, faults, loadFailed, keysFile0, budgetVars, proxyVars,
                   verifyVars, ninits, writerVars, readerVars>>

\* ------------------------------------------------------ the master key

\* Initialize calls made.
MaxInits == 4

\* key.Generate(): a key drawn at random, which no earlier key equals.
GeneratedKeys == <<"g1", "g2", "g3", "g4", "g5", "g6">>

\* keyring.Get's outcomes: the entry, ErrNotFound, or another error of the
\* keyring (locked, denied, its service not reachable).
GetOutcomes ==
    IF keychain = NoEntry THEN {"notfound", "error"} ELSE {"ok", "error"}

\* Initialize goes on to generate a key: err != nil || masterKeyB64 == "".
Generates(get) ==
    get # "ok" \/ keychain = EmptyEntry

\* KeyEncryption.Initialize
Initialize ==
    /\ ~crashed
    /\ ninits < MaxInits
    /\ ninits' = ninits + 1
    /\ \E get \in GetOutcomes, generated \in BOOLEAN, set \in BOOLEAN :
          LET ret(err) == [op |-> "Initialize", err |-> err, before |-> keychain,
                           keyBefore |-> masterKey]
              key == GeneratedKeys[ninits + 1]
          IN  IF ~Generates(get)
              THEN IF keychain = UndecodableEntry
                   THEN /\ cret' = ret("decode")
                        /\ UNCHANGED <<masterKey, keychain>>
                   ELSE /\ masterKey' = keychain.key
                        /\ cret' = ret("ok")
                        /\ UNCHANGED keychain
              ELSE IF ~generated
                   THEN /\ cret' = ret("generate")
                        /\ UNCHANGED <<masterKey, keychain>>
                   ELSE IF ~set
                   THEN /\ cret' = ret("store")
                        /\ UNCHANGED <<masterKey, keychain>>
                   ELSE /\ keychain' = StoredMasterKey(key)
                        /\ masterKey' = key
                        /\ cret' = ret("ok")
    /\ UNCHANGED <<keysCache, files, auditFile, AuditErrors, backup, now, nonce,
                   crashed, faults, loadFailed, keysFile0, budgetVars, proxyVars,
                   verifyVars, writerVars, readerVars>>

\* The entries the keyring may hold when the process starts.
InitialEntries ==
    {NoEntry, EmptyEntry, UndecodableEntry, StoredMasterKey(K1), StoredMasterKey(K0)}

\* &KeyEncryption{} before its Initialize, with the store not yet opened.
CryptoSpecInit ==
    /\ masterKey = NoKey
    /\ keysCache = <<>>
    /\ loadFailed = FALSE
    /\ files = [p \in {KeysPath, TempPath} |-> Absent]
    /\ keysFile0 = Absent
    /\ auditFile = <<>>
    /\ AuditErrors = 0
    /\ backup = [keys |-> Absent, audit |-> <<>>]
    /\ now = 0
    /\ nonce = 1
    /\ w = Idle
    /\ wret = NoRet
    /\ r = RIdle
    /\ rret = NoRet
    /\ added = <<>>
    /\ nwrites = 0
    /\ nreads = 0
    /\ crashed = FALSE
    /\ faults = 0
    /\ BudgetInit(Absent)
    /\ ProxyInit
    /\ VerifyInit
    /\ \E entry \in InitialEntries : CryptoInit(entry)

CryptoNext ==
    \/ Initialize
    \/ ResetMasterKey

SpecCrypto ==
    CryptoSpecInit /\ [][CryptoNext]_vars

Next ==
    \/ \E name \in GoodNames \cup BadNames, in \in AddInputs :
            AddKey(name, in.value, in.provider, in.opts)
    \/ \E name \in GoodNames, updates \in UpdateMaps : UpdateKey(name, updates)
    \/ \E name \in GoodNames : DeleteKey(name)
    \/ SaveOpen
    \/ SaveWrite
    \/ SaveRename
    \/ WriterLog
    \/ WriterLogEnd
    \/ \E name \in GoodNames, project \in Projects : GetKeyValue(name, project)
    \/ GetKeyValueDecrypt
    \/ ReaderLogEnd
    \/ \E in \in BatchInputs :
            GetKeysBatch("cli-get", in.provider, in.keyNames, in.action)
    \/ BatchNext
    \/ BatchLogEnd
    \/ Backup
    \/ BackupAudit
    \/ BackupLog
    \/ VerifyAuditLogs
    \/ Crash

\* The store with its master key in place throughout.
Spec ==
    Init /\ [][Next]_vars

\* The store when the master key may be reset under it.
NextReset ==
    \/ Next
    \/ ResetMasterKey

SpecReset ==
    Init /\ [][NextReset]_vars

\* ----------------------------------------------------------- properties

Mutators == {"AddKey", "UpdateKey", "DeleteKey"}

\* What a call returns when the write of the temp file or the rename fails.
PersistErrors == {"write", "rename"}

\* C1: when the disk write or the rename inside AddKey fails, AddKey returns
\* the error and the record map is the map before the call, whether the name
\* was absent or already held a record.
C1_AddKeyFailureRestoresMap ==
    (wret.op = "AddKey" /\ wret.err \in PersistErrors) => keysCache = wret.before

\* C2: when persistence fails in DeleteKey of a present name, DeleteKey
\* returns the error and the record is still in the map, unchanged.
C2_DeleteKeyFailureKeepsRecord ==
    (wret.op = "DeleteKey" /\ wret.err \in PersistErrors) =>
        /\ wret.name \in DOMAIN keysCache
        /\ keysCache[wret.name] = wret.before[wret.name]

\* C3: when persistence fails in UpdateKey, UpdateKey returns the error and
\* the record's provider, description, source_project, tags, is_active and
\* updated_at are what they were before the call.
C3_UpdateKeyFailureRestoresFields ==
    (wret.op = "UpdateKey" /\ wret.err \in PersistErrors) =>
        /\ wret.name \in DOMAIN keysCache
        /\ LET new == keysCache[wret.name]
               old == wret.before[wret.name]
           IN  /\ new.provider = old.provider
               /\ new.description = old.description
               /\ new.source_project = old.source_project
               /\ new.tags = old.tags
               /\ new.is_active = old.is_active
               /\ new.updated_at = old.updated_at

\* The keys file exists and cannot be decrypted or parsed.
Unreadable(file, mk) ==
    \/ file.kind = "garbage"
    \/ file.kind = "enc" /\ file.tok.k # mk

\* C4: a keys file that cannot be decrypted or parsed at load gives a
\* load-failed store with an empty map; from then on every AddKey, UpdateKey
\* and DeleteKey returns an error, the keys file is never modified, and the
\* map is empty whenever no call holds the lock.
C4_LoadFailedStoreIsFrozen ==
    /\ Unreadable(keysFile0, K1) <=> loadFailed
    /\ loadFailed =>
        /\ files[KeysPath] = keysFile0
        /\ w.pc = "idle" => keysCache = <<>>
        /\ wret.op \in Mutators => wret.err \notin {"ok"}

\* C4's case: an AddKey of a valid name on a load-failed store was refused.
C4_Witness ==
    /\ loadFailed
    /\ wret.op = "AddKey"
    /\ wret.err = "refused"
    /\ nwrites = MaxWrites

\* The bytes a save of the map `cache` puts in the keys file.
IsSaveOf(file, cache) ==
    /\ file.kind = "enc"
    /\ file.tok.k = K1
    /\ file.tok.pt.version = "2.0"
    /\ file.tok.pt.keys = {cache[n] : n \in DOMAIN cache}

\* C5: at every step of a save, and so after a crash at any step, the keys
\* file holds the content it had when the call began (the last completed
\* save's) up to the rename, and the whole new content after it; it never
\* holds a truncated content.  A call that returned success left the keys
\* file holding what it saved, and one that failed left it as it was.
C5_KeysFileCommittedOrNew ==
    /\ files[KeysPath].kind # "truncated"
    /\ w.pc \in {"save", "write", "rename"} => files[KeysPath] = w.keysBefore
    /\ w.pc \in {"log", "nl"} =>
        /\ files[KeysPath] = w.blob
        /\ IsSaveOf(w.blob, keysCache)
    /\ (wret.op \in Mutators /\ wret.err = "ok") => files[KeysPath] = wret.blob
    /\ (wret.op \in Mutators /\ wret.err # "ok") => files[KeysPath] = wret.keysBefore

\* C5's case: the process died between the temp file's write and the rename,
\* with an earlier save's content in the keys file.
C5_Witness ==
    /\ crashed
    /\ w.pc = "rename"
    /\ files[TempPath] = w.blob
    /\ files[KeysPath] = w.keysBefore
    /\ w.keysBefore.kind = "enc"
    /\ w.keysBefore # keysFile0

\* The entry a mutating call appends is the one naming its key and action.
LoggedItsEntry(ret) ==
    /\ Len(ret.logged) = 1
    /\ ret.logged[1].key_name = ret.name
    /\ ret.op = "AddKey" => ret.logged[1].action = "add"
    /\ ret.op = "UpdateKey" => ret.logged[1].action = "update"
    /\ ret.op = "DeleteKey" => ret.logged[1].action = "delete"
    /\ \E i \in 1..Len(auditFile) : auditFile[i] = ret.logged[1]

\* C6 as claimed: every AddKey, UpdateKey and DeleteKey that returns success
\* appends exactly one audit entry (its action, naming its key), only after
\* the keys file has been replaced; a call that returns an error appends
\* none.
C6_Original ==
    /\ (wret.op \in Mutators /\ wret.err = "ok") => LoggedItsEntry(wret)
    /\ (wret.op \in Mutators /\ wret.err # "ok") => wret.logged = <<>>
    /\ w.logged # <<>> => (w.renamed /\ files[KeysPath] = w.blob)

\* C6 as amended: a successful AddKey, UpdateKey or DeleteKey appends exactly
\* one audit entry (its action, naming its key) unless the audit append
\* itself failed, and then it appends none; an entry is appended only after
\* the keys file has been replaced; a call that returns an error appends
\* none.
C6_OneEntryUnlessAuditFails ==
    /\ (wret.op \in Mutators /\ wret.err = "ok" /\ ~wret.logfail) =>
            LoggedItsEntry(wret)
    /\ (wret.op \in Mutators /\ wret.err = "ok" /\ wret.logfail) =>
            wret.logged = <<>>
    /\ (wret.op \in Mutators /\ wret.err # "ok") => wret.logged = <<>>
    /\ w.logged # <<>> => (w.renamed /\ files[KeysPath] = w.blob)

\* C6's case: an UpdateKey returned success and its entry is in the audit
\* file.
C6_Witness ==
    /\ wret.op = "UpdateKey"
    /\ wret.err = "ok"
    /\ ~wret.logfail
    /\ LoggedItsEntry(wret)

\* s is a prefix of t.
IsPrefix(s, t) ==
    /\ Len(s) <= Len(t)
    /\ SubSeq(t, 1, Len(s)) = s

\* C7: across the store's operations the audit file only grows: at every
\* step what it held is an unchanged prefix of what it holds.
C7_AuditFileOnlyGrows ==
    [][IsPrefix(auditFile, auditFile')]_vars

\* C7's case: a mutation, then a Backup, have each appended to the audit
\* file.
C7_Witness ==
    /\ rret.op = "Backup"
    /\ rret.err = "ok"
    /\ Len(rret.logged) = 1
    /\ Len(auditFile) >= 4
    /\ auditFile[1].t = "entry"
    /\ auditFile[1].action \in {"add", "update", "delete"}

\* What GetKeyValue returned fits the record it looked up: not found for an
\* absent name; the plaintext for a value made under the master key, with or
\* without (as `always` says) an entry in every case; a decryption error
\* otherwise.  An error comes with no value and no entry.
ReadEntry(ret) ==
    /\ Len(ret.logged) = 1
    /\ ret.logged[1].key_name = ret.name
    /\ ret.logged[1].action = "read"
    /\ ret.logged[1].project = ret.project
    /\ \E i \in 1..Len(auditFile) : auditFile[i] = ret.logged[1]

GetKeyValueResult(ret, always) ==
    IF ret.key = <<>>
    THEN ret.err = "notfound" /\ ret.result = <<>> /\ ret.logged = <<>>
    ELSE IF ret.key[1].value_encrypted.k = K1
    THEN /\ ret.err = "ok"
         /\ ret.result = <<ret.key[1].value_encrypted.pt>>
         /\ IF always \/ ~ret.logfail THEN ReadEntry(ret) ELSE ret.logged = <<>>
    ELSE ret.err = "decrypt" /\ ret.result = <<>> /\ ret.logged = <<>>

\* A step of a read-side call changes no record and no file of the data
\* directory, and one that returns an error appends nothing.
ReadFrame ==
    /\ (r' # r \/ rret' # rret) => (keysCache' = keysCache /\ files' = files)
    /\ (rret' # rret /\ rret'.op = "GetKeyValue" /\ rret'.err # "ok") =>
            auditFile' = auditFile

\* C8 as claimed: GetKeyValue of a present record whose value decrypts
\* returns the plaintext and appends exactly one entry with action read and
\* the caller's project; on an absent name or a decryption failure it
\* returns an error, appends no entry and changes no record.
C8_Original ==
    [][ReadFrame /\ (rret'.op = "GetKeyValue" => GetKeyValueResult(rret', TRUE))]_vars

\* C8 as amended: the same, except that when the audit append itself fails
\* GetKeyValue still returns the plaintext and appends no entry.
C8_ReadLogsUnlessAuditFails ==
    [][ReadFrame /\ (rret'.op = "GetKeyValue" => GetKeyValueResult(rret', FALSE))]_vars

\* C8's case: GetKeyValue returned the value of a record added in this run
\* and its read entry is in the audit file.
C8_Witness ==
    /\ rret.op = "GetKeyValue"
    /\ rret.err = "ok"
    /\ rret.result = <<"v1">>
    /\ ReadEntry(rret)

\* C9: after AddKey(name, v) succeeds, GetKeyValue(name) returns v until the
\* name is deleted or added again, whatever UpdateKey calls and operations on
\* other names come between.
C9_AddedValueIsReturned ==
    (rret.op = "GetKeyValue" /\ rret.expected # <<>>) =>
        (rret.err = "ok" /\ rret.result = rret.expected)

\* [A-Za-z_][A-Za-z0-9_]{0,255}
MatchesNameRule(name) ==
    /\ Len(name) \in 1..256
    /\ name[1] \in Letters \cup {"_"}
    /\ \A i \in 2..Len(name) : name[i] \in Letters \cup Digits \cup {"_"}

\* C10: AddKey with a name outside [A-Za-z_][A-Za-z0-9_]{0,255} or with an
\* empty value is rejected with an error and leaves the record map, the keys
\* file and the audit file as they were; OPENAI_KEY and _X9 are accepted.
\* (For the empty value only the error is asked here: what a failed save
\* leaves in the map is C1's.)
C10_AddKeyValidates ==
    /\ (wret.op = "AddKey" /\ ~MatchesNameRule(wret.name)) =>
        /\ wret.err = "invalid"
        /\ keysCache = wret.before
        /\ files[KeysPath] = wret.keysBefore
        /\ wret.logged = <<>>
    /\ (wret.op = "AddKey" /\ wret.value = "") => wret.err # "ok"
    /\ (wret.op = "AddKey" /\ wret.name \in {OPENAI_KEY, X9}) =>
            wret.err # "invalid"
    /\ ValidateKeyName(Long256) /\ ~ValidateKeyName(Long257)


\* --------------------------------------------------------- budget tracker

\* Number of Record calls in a behaviour.
MaxRecords == 2
\* Number of SetConfig and ResetCounter calls in a behaviour.
MaxConfigs == 1
\* Last day of a month, and last month, the clock reaches.
MaxDay == 2
MaxMonth == 2

\* Budget files a tracker can be constructed on: none, and one whose openai
\* counter stands at its daily limit on the first day.
InitialBudgetFiles ==
    { Absent,
      BudgetData([p \in {"openai"} |-> BudgetConfig(1, 2)],
                 [p \in {"openai"} |->
                    [daily_count |-> 1, monthly_count |-> 1,
                     daily_date |-> <<1, 1>>, monthly_date |-> <<1>>]]) }

\* The limits SetConfig is called with: a daily one, both, a monthly one,
\* and negative ones.
ConfigInputs ==
    { BudgetConfig(1, 0), BudgetConfig(2, 3), BudgetConfig(0, 2),
      BudgetConfig(-1, -1) }

\* A background save that takes no lock.
SaverHoldsNoLock(sv) ==
    FALSE

\* A background save holds the read lock from its open to its end.
SaverHoldsRLock(sv) ==
    sv.pc \in {"write", "rename"}

\* bt.mu.Lock(): no call holds the lock and no save holds the read lock.
CanBudgetLock ==
    /\ ~crashed
    /\ bw.pc = "idle"
    /\ \A i \in 1..Len(savers) : ~SaverHoldsRLock(savers[i])

\* bt.mu.RLock(): no call holds the lock.
CanBudgetRLock ==
    /\ ~crashed
    /\ bw.pc = "idle"

\* What a call on the tracker returned.
BudgetReturn(op, provider, err) ==
    [op |-> op, provider |-> provider, err |-> err]

\* The sequence without its i-th element.
RemoveAt(seq, i) ==
    SubSeq(seq, 1, i - 1) \o SubSeq(seq, i + 1, Len(seq))

\* Check(provider)
Check(provider) ==
    /\ CanBudgetRLock
    /\ LET res == CheckResult(config, counters, provider, clock)
       IN  /\ counters' = res.counters
           /\ bret' = BudgetReturn("Check", provider, res.err)
    /\ UNCHANGED <<storeVars, restVars, crashed, faults, config, clock, budgetFiles,
                   savers, bw, nrecords, nconfigs>>

\* The counters after Record(provider).
Recorded(cs, provider, clk) ==
    LET ensured == ensureCounter(cs, provider)
    IN  MapSet(ensured, provider, RecordCounter(ensured[provider], clk))

\* Record starts a goroutine that saves.
SpawnSave(svs) ==
    Append(svs, [pc |-> "spawned", data |-> Absent, ino |-> NoFile])

\* Record(provider): the counters are updated under the lock, and a
\* background save is started.
Record(provider) ==
    /\ CanBudgetLock
    /\ nrecords < MaxRecords
    /\ nrecords' = nrecords + 1
    /\ counters' = Recorded(counters, provider, clock)
    /\ savers' = SpawnSave(savers)
    /\ bret' = BudgetReturn("Record", provider, "ok")
    /\ UNCHANGED <<storeVars, restVars, crashed, faults, config, clock, budgetFiles, bw,
                   nconfigs>>

\* The background save takes the read lock, marshals the tracker's state and
\* opens the temp file.
SaverOpen(i) ==
    /\ CanBudgetRLock
    /\ savers[i].pc = "spawned"
    /\ \E ok \in BOOLEAN :
          /\ DiskOutcome(ok)
          /\ IF ok
             THEN /\ budgetFiles' = OpenTrunc(budgetFiles, BudgetTempPath)
                  /\ savers' = [savers EXCEPT
                                  ![i].pc = "write",
                                  ![i].data = BudgetData(config, counters),
                                  ![i].ino = budgetFiles'.names[BudgetTempPath]]
             ELSE /\ savers' = RemoveAt(savers, i)
                  /\ UNCHANGED budgetFiles
    /\ bret' = NoRet
    /\ UNCHANGED <<storeVars, restVars, crashed, config, counters, clock, bw, nrecords,
                   nconfigs>>

\* The background save writes the temp file.
SaverWrite(i) ==
    /\ ~crashed
    /\ savers[i].pc = "write"
    /\ \E ok \in BOOLEAN :
          /\ DiskOutcome(ok)
          /\ IF ok
             THEN /\ \E mixed \in BOOLEAN :
                        budgetFiles' = WriteAt(budgetFiles, savers[i].ino,
                                               savers[i].data, mixed)
                  /\ savers' = [savers EXCEPT ![i].pc = "rename"]
             ELSE /\ savers' = RemoveAt(savers, i)
                  /\ UNCHANGED budgetFiles
    /\ bret' = NoRet
    /\ UNCHANGED <<storeVars, restVars, crashed, config, counters, clock, bw, nrecords,
                   nconfigs>>

\* The background save renames the temp file over the budget file, drops
\* the result and releases the read lock.
SaverRename(i) ==
    /\ ~crashed
    /\ savers[i].pc = "rename"
    /\ \E ok \in BOOLEAN :
          /\ DiskOutcome(ok)
          /\ IF ok /\ CanRename(budgetFiles, BudgetTempPath)
             THEN /\ budgetFiles' = RenameFile(budgetFiles, BudgetTempPath, BudgetPath)
                  /\ savers' = RemoveAt(savers, i)
             ELSE /\ savers' = RemoveAt(savers, i)
                  /\ UNCHANGED budgetFiles
    /\ bret' = NoRet
    /\ UNCHANGED <<storeVars, restVars, crashed, config, counters, clock, bw, nrecords,
                   nconfigs>>

\* SetConfig and ResetCounter go on to save with the lock held.
BudgetProceed(op, provider) ==
    /\ bw' = [BIdle EXCEPT !.pc = "open", !.op = op, !.provider = provider,
                           !.cfgBefore = config, !.ctrBefore = counters,
                           !.fileBefore = ContentOf(budgetFiles, BudgetPath)]
    /\ bret' = NoRet
    /\ nconfigs' = nconfigs + 1

\* SetConfig(provider, daily, monthly): the assignment to the config.
SetConfig(provider, cfg) ==
    /\ CanBudgetLock
    /\ nconfigs < MaxConfigs
    /\ config' = MapSet(config, provider, cfg)
    /\ BudgetProceed("SetConfig", provider)
    /\ UNCHANGED <<storeVars, restVars, crashed, faults, counters, clock, budgetFiles,
                   savers, nrecords>>

\* ResetCounter(provider): delete(bt.counters, provider).
ResetCounter(provider) ==
    /\ CanBudgetLock
    /\ nconfigs < MaxConfigs
    /\ counters' = MapDelete(counters, provider)
    /\ BudgetProceed("ResetCounter", provider)
    /\ UNCHANGED <<storeVars, restVars, crashed, faults, config, clock, budgetFiles,
                   savers, nrecords>>

\* save returned err; SetConfig or ResetCounter returns it and unlocks.
BudgetSaveEnd(err) ==
    /\ bw' = BIdle
    /\ bret' = [op |-> bw.op, provider |-> bw.provider, err |-> err,
                cfgBefore |-> bw.cfgBefore, ctrBefore |-> bw.ctrBefore,
                fileBefore |-> bw.fileBefore, data |-> bw.data]

\* save, called with the lock held: the marshalling and the open of the temp
\* file.
BudgetSaveOpen ==
    /\ ~crashed
    /\ bw.pc = "open"
    /\ \E ok \in BOOLEAN :
          /\ DiskOutcome(ok)
          /\ IF ok
             THEN /\ budgetFiles' = OpenTrunc(budgetFiles, BudgetTempPath)
                  /\ bw' = [bw EXCEPT !.pc = "write",
                                      !.data = BudgetData(config, counters),
                                      !.ino = budgetFiles'.names[BudgetTempPath]]
                  /\ bret' = NoRet
             ELSE /\ BudgetSaveEnd("write")
                  /\ UNCHANGED budgetFiles
    /\ UNCHANGED <<storeVars, restVars, crashed, config, counters, clock, savers,
                   nrecords, nconfigs>>

\* save: the write of the temp file.
BudgetSaveWrite ==
    /\ ~crashed
    /\ bw.pc = "write"
    /\ \E ok \in BOOLEAN :
          /\ DiskOutcome(ok)
          /\ IF ok
             THEN /\ \E mixed \in BOOLEAN :
                        budgetFiles' = WriteAt(budgetFiles, bw.ino, bw.data, mixed)
                  /\ bw' = [bw EXCEPT !.pc = "rename"]
                  /\ bret' = NoRet
             ELSE /\ BudgetSaveEnd("write")
                  /\ UNCHANGED budgetFiles
    /\ UNCHANGED <<storeVars, restVars, crashed, config, counters, clock, savers,
                   nrecords, nconfigs>>

\* save: return os.Rename(tempFile, bt.file).
BudgetSaveRename ==
    /\ ~crashed
    /\ bw.pc = "rename"
    /\ \E ok \in BOOLEAN :
          /\ DiskOutcome(ok)
          /\ IF ok /\ CanRename(budgetFiles, BudgetTempPath)
             THEN /\ budgetFiles' = RenameFile(budgetFiles, BudgetTempPath, BudgetPath)
                  /\ BudgetSaveEnd("ok")
             ELSE /\ BudgetSaveEnd("rename")
                  /\ UNCHANGED budgetFiles
    /\ UNCHANGED <<storeVars, restVars, crashed, config, counters, clock, savers,
                   nrecords, nconfigs>>

\* Midnight passes: the next day of the month, or the first of the next
\* month.
Tick ==
    /\ ~crashed
    /\ \/ clock.day < MaxDay /\ clock' = [clock EXCEPT !.day = @ + 1]
       \/ clock.month < MaxMonth /\ clock' = [month |-> clock.month + 1, day |-> 1]
    /\ bret' = NoRet
    /\ UNCHANGED <<storeVars, restVars, crashed, faults, config, counters, budgetFiles,
                   savers, bw, nrecords, nconfigs>>

\* The process dies while a save is in progress.
BudgetCrash ==
    /\ ~crashed
    /\ \/ bw.pc # "idle"
       \/ \E i \in 1..Len(savers) : SaverHoldsRLock(savers[i])
    /\ crashed' = TRUE
    /\ bret' = NoRet
    /\ UNCHANGED <<storeVars, restVars, faults, config, counters, clock, budgetFiles,
                   savers, bw, nrecords, nconfigs>>

BudgetNext ==
    \/ \E p \in BudgetProviders : Check(p)
    \/ \E p \in BudgetProviders : Record(p)
    \/ \E i \in 1..Len(savers) : SaverOpen(i)
    \/ \E i \in 1..Len(savers) : SaverWrite(i)
    \/ \E i \in 1..Len(savers) : SaverRename(i)
    \/ \E p \in BudgetProviders, cfg \in ConfigInputs : SetConfig(p, cfg)
    \/ \E p \in BudgetProviders : ResetCounter(p)
    \/ BudgetSaveOpen
    \/ BudgetSaveWrite
    \/ BudgetSaveRename
    \/ Tick
    \/ BudgetCrash

\* The budget tracker on its own, on an empty key store.
BudgetSpecInit ==
    /\ StoreInit(Absent)
    /\ crashed = FALSE
    /\ faults = 0
    /\ \E f \in InitialBudgetFiles : BudgetInit(f)
    /\ ProxyInit
    /\ VerifyInit
    /\ CryptoInit(StoredMasterKey(K1))

SpecBudget ==
    BudgetSpecInit /\ [][BudgetNext]_vars

\* ------------------------------------------------- budget: properties

\* The provider's stored counter, none counting as the zero counter.
StoredCounter(cs, p) ==
    IF p \in DOMAIN cs THEN cs[p] ELSE ZeroCounter

\* The provider is over its daily limit today.
OverDaily(cfgs, cs, p, clk) ==
    /\ p \in DOMAIN cfgs
    /\ p \in DOMAIN cs
    /\ cfgs[p].daily_limit > 0
    /\ cs[p].daily_date = Today(clk)
    /\ cs[p].daily_count >= cfgs[p].daily_limit

\* The provider is over its monthly limit this month.
OverMonthly(cfgs, cs, p, clk) ==
    /\ p \in DOMAIN cfgs
    /\ p \in DOMAIN cs
    /\ cfgs[p].monthly_limit > 0
    /\ cs[p].monthly_date = ThisMonth(clk)
    /\ cs[p].monthly_count >= cfgs[p].monthly_limit

\* C11: Check(p) fails exactly when p has a config and is over its daily
\* limit today or over its monthly limit this month; so with a daily limit
\* L > 0 and L + 1 Records on the day, Check fails, and with no config, or a
\* limit of 0, that limit does not make Check fail.
C11_CheckFailsExactlyWhenOverLimit ==
    [][bret'.op = "Check" =>
        LET p == bret'.provider
        IN  /\ (bret'.err # "ok") <=>
                    (OverDaily(config, counters, p, clock)
                        \/ OverMonthly(config, counters, p, clock))
            /\ bret'.err = "daily" =>
                    (p \in DOMAIN config /\ config[p].daily_limit > 0)
            /\ bret'.err = "monthly" =>
                    (p \in DOMAIN config /\ config[p].monthly_limit > 0)
            /\ (/\ p \in DOMAIN config
                /\ config[p].daily_limit > 0
                /\ StoredCounter(counters, p).daily_date = Today(clock)
                /\ StoredCounter(counters, p).daily_count = config[p].daily_limit + 1)
                    => bret'.err # "ok"]_vars

\* C11's case: two Records of openai on one day under a daily limit of 1, and
\* the Check that follows has failed on the daily limit.
C11_Witness ==
    /\ bret.op = "Check"
    /\ bret.provider = "openai"
    /\ bret.err = "daily"
    /\ nrecords = 2
    /\ "openai" \in DOMAIN config
    /\ config["openai"].daily_limit = 1
    /\ DOMAIN counters = {"openai"}
    /\ counters["openai"].daily_count = 2
    /\ counters["openai"].daily_date = Today(clock)

\* C12: the first Record(p) of a new day within the month sets the daily
\* count to 1 and the stored day to the new day and adds 1 to the monthly
\* count; the first Record(p) of a new month sets both counts to 1.
C12_RecordRollsCounters ==
    [][bret'.op = "Record" =>
        LET p == bret'.provider
            old == StoredCounter(counters, p)
            new == counters'[p]
        IN  /\ (old.daily_date # Today(clock) /\ old.monthly_date = ThisMonth(clock)) =>
                /\ new.daily_count = 1
                /\ new.daily_date = Today(clock)
                /\ new.monthly_count = old.monthly_count + 1
                /\ new.monthly_date = old.monthly_date
            /\ old.monthly_date # ThisMonth(clock) =>
                /\ new.daily_count = 1
                /\ new.monthly_count = 1
                /\ new.daily_date = Today(clock)
                /\ new.monthly_date = ThisMonth(clock)
            /\ (old.daily_date = Today(clock) /\ old.monthly_date = ThisMonth(clock)) =>
                /\ new.daily_count = old.daily_count + 1
                /\ new.monthly_count = old.monthly_count + 1]_vars

\* C12's case: a Record on the first day, then one on the second day of the
\* same month.
C12_Witness ==
    /\ bret.op = "Record"
    /\ clock = [month |-> 1, day |-> 2]
    /\ bret.provider \in DOMAIN counters
    /\ counters[bret.provider].daily_count = 1
    /\ counters[bret.provider].daily_date = <<1, 2>>
    /\ counters[bret.provider].monthly_count = 2

\* Check changes neither the config nor any counter.
CheckFrame ==
    bret'.op = "Check" => (config' = config /\ counters' = counters)

\* The provider's stored counter stands at or over its daily limit on a day
\* that has passed.
LapsedAtLimit(cfgs, cs, p, clk) ==
    /\ p \in DOMAIN cfgs
    /\ p \in DOMAIN cs
    /\ cfgs[p].daily_limit > 0
    /\ cs[p].daily_date # Today(clk)
    /\ cs[p].daily_count >= cfgs[p].daily_limit

\* C13 as claimed: Check changes no config and no counter, and a provider
\* that reached its daily limit on a previous day passes Check on the new
\* day before any Record.
C13_Original ==
    [][/\ CheckFrame
       /\ (bret'.op = "Check"
            /\ LapsedAtLimit(config, counters, bret'.provider, clock))
                => bret'.err = "ok"]_vars

\* C13 as amended: Check changes no config and no counter, and a provider
\* that reached its daily limit on a previous day is not failed by Check on
\* the daily limit on the new day before any Record: Check passes unless the
\* provider is over its monthly limit this month.
C13_CheckChangesNothing ==
    [][/\ CheckFrame
       /\ (bret'.op = "Check"
            /\ LapsedAtLimit(config, counters, bret'.provider, clock))
                => /\ bret'.err # "daily"
                   /\ bret'.err = "ok" \/
                        OverMonthly(config, counters, bret'.provider, clock)]_vars

\* C13's case: Check has passed a provider whose stored counter is still the
\* one of the day before, at its limit.
C13_Witness ==
    /\ bret.op = "Check"
    /\ bret.err = "ok"
    /\ LapsedAtLimit(config, counters, bret.provider, clock)


\* ------------------------------------------------------------------ proxy

\* A stored record of another provider, and one that has been deactivated.
OfProvider(key, provider) ==
    [key EXCEPT !.provider = provider]

Deactivated(key) ==
    [key EXCEPT !.is_active = FALSE]

\* Keys files the proxy's store can be constructed on: none; one active
\* openai key; a legacy file with an openai key made under another master
\* key and a good one; a deactivated openai key and an anthropic key.
ProxyKeysFiles ==
    { Absent,
      EncFile(Encrypt(K1, 0, KeysFilePayload(CacheOf({StoredKey(OPENAI_KEY, K1, "v0")}), 0))),
      PlainFile(KeysFilePayload(CacheOf({StoredKey(OPENAI_KEY, K0, "v0"),
                                         StoredKey(X9, K1, "v9")}), 0)),
      EncFile(Encrypt(K1, 0, KeysFilePayload(CacheOf(
          {Deactivated(StoredKey(OPENAI_KEY, K1, "v0")),
           OfProvider(StoredKey(X9, K1, "v9"), "anthropic")}), 0))) }

\* Budget files the proxy's tracker can be constructed on: those of the
\* tracker, one whose openai counter is one request short of its daily
\* limit, and one that is not a budget file.
ProxyBudgetFiles ==
    InitialBudgetFiles \cup
    { BudgetData([p \in {"openai"} |-> BudgetConfig(2, 0)],
                 [p \in {"openai"} |->
                    [daily_count |-> 1, monthly_count |-> 1,
                     daily_date |-> <<1, 1>>, monthly_date |-> <<1>>]]),
      Garbage }

\* Header values and model names of the requests.
Gpt4o == <<"g", "p", "t", "-", "4", "o">>
Claude3Opus == <<"c", "l", "a", "u", "d", "e", "-", "3", "-", "o", "p", "u", "s">>
Llama3 == <<"l", "l", "a", "m", "a", "-", "3">>
AnthropicSpaced == <<" ", "A", "n", "t", "h", "r", "o", "p", "i", "c", " ">>
Bogus == <<"b", "o", "g", "u", "s">>

GptUpper == <<"G", "P", "T", "-", "4", "o">>
GptBare == <<"g", "p", "t">>
Glm4 == <<"g", "l", "m", "-", "4">>
GeminiUpper == <<"G", "E", "M", "I", "N", "I">>
Spaces == <<" ", " ">>

\* The caller's own credentials, as header values.
CallerAuthorization == <<"Bearer ", "caller">>
CallerApiKey == <<"", "caller">>

\* c.GetHeader(name): "" when the request has no such header.
GetHeader(h, name) ==
    IF name \in DOMAIN h THEN h[name] ELSE <<>>

\* The requests the proxy is sent: their headers and body.
ProxyRequests ==
    { [headers |-> [n \in {"Authorization"} |-> CallerAuthorization],
       body |-> Body(TRUE, Gpt4o)],
      [headers |-> [n \in {"Authorization", "X-Api-Key", "X-AKM-Provider"} |->
                      CASE n = "Authorization" -> CallerAuthorization
                        [] n = "X-Api-Key" -> CallerApiKey
                        [] n = "X-AKM-Provider" -> AnthropicSpaced],
       body |-> Body(TRUE, Gpt4o)],
      [headers |-> [n \in {"X-AKM-Provider"} |-> Bogus],
       body |-> Body(TRUE, Claude3Opus)],
      [headers |-> <<>>, body |-> Body(TRUE, Llama3)],
      [headers |-> [n \in {"X-AKM-Key"} |-> OPENAI_KEY],
       body |-> Body(TRUE, Claude3Opus)],
      [headers |-> [n \in {"X-AKM-Provider"} |-> ProviderNames["gemini"]],
       body |-> Body(TRUE, Gpt4o)] }

\* The handler answers the request itself.
Answer(i, status, errType) ==
    px' = [px EXCEPT ![i].pc = "done", ![i].status = status,
                     ![i].errType = errType]

\* proxyHandler up to the budget check: the body is read and the provider
\* resolved; no provider is a 400.
ProxyHandler(i, req) ==
    /\ ~crashed
    /\ px[i].pc \in {"idle", "done"}
    /\ nrequests < MaxRequests
    /\ nrequests' = nrequests + 1
    /\ LET resolved == resolveProvider(GetHeader(req.headers, "X-AKM-Provider"),
                                       req.body)
           start == [PIdle EXCEPT !.headers = req.headers, !.body = req.body,
                                  !.keyName = GetHeader(req.headers, "X-AKM-Key")]
       IN  IF resolved = {}
           THEN px' = [px EXCEPT ![i] = [start EXCEPT !.pc = "done", !.status = 400,
                                           !.errType = "invalid_request_error"]]
           ELSE \E provider \in resolved :
                  px' = [px EXCEPT ![i] = [start EXCEPT !.pc = "budget",
                                             !.provider = provider]]
    /\ UNCHANGED <<verifyVars, cryptoVars, storeVars, crashed, faults, budgetVars, budgetOnce>>

\* GetBudgetTracker: the first call constructs the tracker, and returns an
\* error when the budget file does not load; a later call returns what the
\* first one left, with no error.
GetBudgetTracker ==
    CASE budgetOnce = "unset" ->
            IF ContentOf(budgetFiles, BudgetPath).kind \in {"absent", "budget"}
            THEN [instance |-> "tracker", err |-> FALSE]
            ELSE [instance |-> "nil", err |-> TRUE]
      [] budgetOnce = "tracker" -> [instance |-> "tracker", err |-> FALSE]
      [] budgetOnce = "nil" -> [instance |-> "nil", err |-> FALSE]

\* A handler that goes on whatever Check returned.
AfterCheckFailOpen(err) ==
    [pc |-> "select", status |-> 0, errType |-> ""]

\* if err := budget.Check(provider); err != nil: the 429 and the return.
AfterCheck(err) ==
    IF err # "ok"
    THEN [pc |-> "done", status |-> 429, errType |-> "budget_exceeded"]
    ELSE [pc |-> "select", status |-> 0, errType |-> ""]

\* The budget check: with a tracker, Check(provider), and a 429 when it
\* fails; with the error of the first call, no check; with neither tracker
\* nor error, the call on the nil tracker panics and the server's recovery
\* answers 500.
ProxyBudget(i) ==
    /\ ~crashed
    /\ px[i].pc = "budget"
    /\ LET got == GetBudgetTracker
           res == CheckResult(config, counters, px[i].provider, clock)
       IN  /\ budgetOnce' = got.instance
           /\ CASE got.err ->
                     /\ px' = [px EXCEPT ![i].pc = "select", ![i].budget = "nil"]
                     /\ UNCHANGED counters
                [] ~got.err /\ got.instance = "nil" ->
                     /\ Answer(i, 500, "panic")
                     /\ UNCHANGED counters
                [] OTHER ->
                     /\ bw.pc = "idle"
                     /\ counters' = res.counters
                     /\ px' = [px EXCEPT ![i].pc = AfterCheck(res.err).pc,
                                         ![i].status = AfterCheck(res.err).status,
                                         ![i].errType = AfterCheck(res.err).errType,
                                         ![i].budget = "tracker"]
    /\ UNCHANGED <<verifyVars, cryptoVars, storeVars, crashed, faults, config, clock, budgetFiles, savers,
                   bw, bret, nrecords, nconfigs, nrequests>>

\* The orders in which a range over a map can give the records of the set.
Orders(records) ==
    {seq \in [1..Cardinality(records) -> records] :
        \A a, b \in 1..Cardinality(records) : seq[a] = seq[b] => a = b}

\* A loop that takes the first record, active or not.
FromFirstActiveOrNot(keys) ==
    keys

\* The records from the first active one on; none when there is none.
FromFirstActive(keys) ==
    IF \A j \in 1..Len(keys) : ~keys[j].is_active
    THEN <<>>
    ELSE LET first == CHOOSE j \in 1..Len(keys) :
                        keys[j].is_active /\ \A l \in 1..(j - 1) : ~keys[l].is_active
         IN  SubSeq(keys, first, Len(keys))

\* s.mu.RLock() of the key store by the proxy.
CanProxyRLock ==
    /\ ~crashed
    /\ w.pc = "idle"

\* selectKey: with an X-AKM-Key header, GetKeyValue's lookup of that name,
\* and a 502 when there is no such record; without, ListKeys(provider).
ProxySelect(i) ==
    /\ CanProxyRLock
    /\ px[i].pc = "select"
    /\ IF px[i].keyName # <<>>
       THEN IF px[i].keyName \in DOMAIN keysCache
            THEN px' = [px EXCEPT ![i].pc = "decrypt",
                                  ![i].key = <<keysCache[px[i].keyName]>>]
            ELSE Answer(i, 502, "key_error")
       ELSE \E keys \in Orders({keysCache[n] :
                                  n \in ListKeysMatches(keysCache, px[i].provider)}) :
               px' = [px EXCEPT ![i].pc = "pick", ![i].keys = keys]
    /\ UNCHANGED <<verifyVars, cryptoVars, storeVars, crashed, faults, budgetVars, budgetOnce, nrequests>>

\* The loop over the records listed: the next active one is looked up by
\* name with GetKeyValue; a name gone from the map is passed over; no record
\* left is a 502.
ProxyPick(i) ==
    /\ CanProxyRLock
    /\ px[i].pc = "pick"
    /\ LET keys == FromFirstActive(px[i].keys)
       IN  IF keys = <<>>
           THEN Answer(i, 502, "key_error")
           ELSE IF Head(keys).name \in DOMAIN keysCache
           THEN px' = [px EXCEPT ![i].pc = "decrypt", ![i].keys = Tail(keys),
                                 ![i].listed = <<Head(keys)>>,
                                 ![i].key = <<keysCache[Head(keys).name]>>]
           ELSE px' = [px EXCEPT ![i].keys = Tail(keys)]
    /\ UNCHANGED <<verifyVars, cryptoVars, storeVars, crashed, faults, budgetVars, budgetOnce, nrequests>>

\* GetKeyValue outside the lock: the decryption, then logUsage(name, "read",
\* "proxy").  A value that does not decrypt is a 502 for a key named in the
\* header, and the next record otherwise.
ProxyDecrypt(i) ==
    /\ ~crashed
    /\ px[i].pc = "decrypt"
    /\ IF ~DecryptOk(masterKey, px[i].key[1].value_encrypted)
       THEN /\ IF px[i].keyName # <<>>
               THEN Answer(i, 502, "key_error")
               ELSE px' = [px EXCEPT ![i].pc = "pick", ![i].key = <<>>,
                                     ![i].listed = <<>>]
            /\ UNCHANGED <<auditFile, AuditErrors, faults>>
       ELSE \E out \in LogOutcomes :
              LET entry == SignedLog(px[i].key[1].name, "read", "proxy", now,
                                     masterKey)
                  value == <<px[i].key[1].value_encrypted.pt>>
              IN  /\ LogWrite(out, entry)
                  /\ IF out = "ok"
                     THEN px' = [px EXCEPT ![i].pc = "nl", ![i].apiKey = value,
                                           ![i].logged = Append(@, entry)]
                     ELSE px' = [px EXCEPT ![i].pc = "forward",
                                           ![i].apiKey = value]
    /\ UNCHANGED <<verifyVars, cryptoVars, masterKey, keysCache, loadFailed, files, backup, now, nonce,
                   writerVars, readerVars, keysFile0, crashed, budgetVars,
                   budgetOnce, nrequests>>

\* The end of the line of the entry, and GetKeyValue returns the value.
ProxyLogEnd(i) ==
    /\ ~crashed
    /\ px[i].pc = "nl"
    /\ \E ok \in BOOLEAN : LogEnd(ok)
    /\ px' = [px EXCEPT ![i].pc = "forward"]
    /\ UNCHANGED <<verifyVars, cryptoVars, masterKey, keysCache, loadFailed, files, AuditErrors, backup,
                   now, nonce, writerVars, readerVars, keysFile0, crashed,
                   budgetVars, budgetOnce, nrequests>>

\* proxy.ServeHTTP: the Director rewrites the request and the one call
\* upstream is made.
ProxyForward(i) ==
    /\ ~crashed
    /\ px[i].pc = "forward"
    /\ px' = [px EXCEPT ![i].pc = "upstream", ![i].calls = @ + 1,
                        ![i].out = <<Director(px[i].headers,
                                              providerRoutes[px[i].provider],
                                              px[i].apiKey[1])>>]
    /\ UNCHANGED <<verifyVars, cryptoVars, storeVars, crashed, faults, budgetVars, budgetOnce, nrequests>>

\* The statuses an upstream answers with.
UpstreamStatuses == {200, 401, 500}

\* The upstream's response arrives: ModifyResponse calls Record(provider)
\* when the handler holds a tracker, and the response goes to the caller.
ProxyResponse(i, status) ==
    /\ ~crashed
    /\ px[i].pc = "upstream"
    /\ IF px[i].budget = "tracker"
       THEN /\ CanBudgetLock
            /\ counters' = Recorded(counters, px[i].provider, clock)
            /\ savers' = SpawnSave(savers)
            /\ nrecords' = nrecords + 1
            /\ px' = [px EXCEPT ![i].pc = "done", ![i].status = status,
                                ![i].records = @ + 1]
       ELSE /\ px' = [px EXCEPT ![i].pc = "done", ![i].status = status]
            /\ UNCHANGED <<counters, savers, nrecords>>
    /\ UNCHANGED <<verifyVars, cryptoVars, storeVars, crashed, faults, config, clock, budgetFiles, bw,
                   bret, nconfigs, budgetOnce, nrequests>>

\* A reverse proxy that runs ModifyResponse on a failed call too.
ProxyUpstreamErrorRecording(i) ==
    /\ ~crashed
    /\ px[i].pc = "upstream"
    /\ px' = [px EXCEPT ![i].pc = "done", ![i].status = 502,
                        ![i].errType = "upstream", ![i].records = @ + 1]
    /\ counters' = Recorded(counters, px[i].provider, clock)
    /\ nrecords' = nrecords + 1
    /\ UNCHANGED <<verifyVars, cryptoVars, storeVars, crashed, faults, config, clock, budgetFiles, savers,
                   bw, bret, nconfigs, budgetOnce, nrequests>>

\* The call upstream fails with no response: the reverse proxy answers 502
\* and ModifyResponse is not run.
ProxyUpstreamError(i) ==
    /\ ~crashed
    /\ px[i].pc = "upstream"
    /\ Answer(i, 502, "upstream")
    /\ UNCHANGED <<verifyVars, cryptoVars, storeVars, crashed, faults, budgetVars, budgetOnce, nrequests>>

\* Calls of the server's key routes in a behaviour.
MaxProxyWrites == 1

\* The server's POST /keys route, as a call of AddKey.
addKeyHandler(name, in) ==
    /\ nwrites < MaxProxyWrites
    /\ AddKey(name, in.value, in.provider, in.opts)

\* The server's DELETE /keys/:name route, as a call of DeleteKey.
deleteKeyHandler(name) ==
    /\ nwrites < MaxProxyWrites
    /\ DeleteKey(name)

\* The proxy in its server: the requests, and the key routes' calls on the
\* key store.  The background saves Record starts write the budget file
\* only, which the server reads once, before any Record; their steps are
\* those of SpecBudget.
ProxyNext ==
    \/ \E i \in Slots, req \in ProxyRequests : ProxyHandler(i, req)
    \/ \E i \in Slots : ProxyBudget(i)
    \/ \E i \in Slots : ProxySelect(i)
    \/ \E i \in Slots : ProxyPick(i)
    \/ \E i \in Slots : ProxyDecrypt(i)
    \/ \E i \in Slots : ProxyLogEnd(i)
    \/ \E i \in Slots : ProxyForward(i)
    \/ \E i \in Slots, status \in UpstreamStatuses : ProxyResponse(i, status)
    \/ \E i \in Slots : ProxyUpstreamError(i)
    \/ \E name \in GoodNames, in \in AddInputs : addKeyHandler(name, in)
    \/ \E name \in GoodNames : deleteKeyHandler(name)
    \/ SaveOpen
    \/ SaveWrite
    \/ SaveRename
    \/ WriterLog
    \/ WriterLogEnd

ProxySpecInit ==
    /\ \E f \in ProxyKeysFiles : StoreInit(f)
    /\ crashed = FALSE
    /\ faults = 0
    /\ \E f \in ProxyBudgetFiles : BudgetInit(f)
    /\ ProxyInit
    /\ VerifyInit
    /\ CryptoInit(StoredMasterKey(K1))

SpecProxy ==
    ProxySpecInit /\ [][ProxyNext]_vars

\* X-AKM-Provider headers and bodies for the resolution on its own.
ResolveHeaders ==
    {<<>>, ProviderNames["openai"], AnthropicSpaced, GeminiUpper, Bogus, Spaces}

ResolveBodies ==
    { Body(TRUE, Gpt4o), Body(TRUE, Claude3Opus), Body(TRUE, GptUpper),
      Body(TRUE, Glm4), Body(TRUE, Llama3), Body(TRUE, GptBare),
      Body(TRUE, <<>>), Body(FALSE, <<>>) }

ResolveRequests ==
    { [headers |-> IF h = <<>> THEN <<>> ELSE [n \in {"X-AKM-Provider"} |-> h],
       body |-> b] : h \in ResolveHeaders, b \in ResolveBodies }

\* The handler's provider resolution on its own, on every pair of header and
\* body.
SpecResolve ==
    ProxySpecInit /\ [][\E i \in Slots, req \in ResolveRequests :
                           ProxyHandler(i, req)]_vars

\* ------------------------------------------------- proxy: properties

\* The request in the slot has touched nothing beyond the tracker's Check:
\* no upstream call, no record looked up or decrypted, no audit entry, no
\* Record.
TouchedNothing(p) ==
    /\ p.calls = 0
    /\ p.out = <<>>
    /\ p.key = <<>>
    /\ p.apiKey = <<>>
    /\ p.logged = <<>>
    /\ p.records = 0

\* C14: when Check fails for the resolved provider the proxy answers 429 and
\* makes no upstream call, reads or decrypts no key, appends no audit entry
\* and does not call Record: the step of the budget check on a provider that
\* is over its limit ends the request with a 429 and leaves the key store,
\* the audit file and the tracker as they were, and a request answered 429
\* has made no upstream call, read no key and logged and recorded nothing.
C14_OverBudgetIsRefused ==
    [][\A i \in Slots :
          /\ ( /\ px[i].pc = "budget"
               /\ px'[i] # px[i]
               /\ GetBudgetTracker.instance = "tracker"
               /\ CheckResult(config, counters, px[i].provider, clock).err # "ok" )
             => /\ px'[i].pc = "done"
                /\ px'[i].status = 429
                /\ TouchedNothing(px'[i])
                /\ UNCHANGED <<keysCache, auditFile, AuditErrors, config, counters,
                               savers, nrecords>>
          /\ px'[i].status = 429 => TouchedNothing(px'[i])]_vars

\* C14's case: a request has been refused with a 429.
C14_Witness ==
    \E i \in Slots :
        /\ px[i].status = 429
        /\ px[i].errType = "budget_exceeded"
        /\ px[i].provider = "openai"

\* The request ended with the upstream's response.
Responded(p) ==
    /\ p.pc = "done"
    /\ p.errType = ""

\* A step in which Record runs: it is the step in which the response of
\* some request arrives.
RecordOnlyOnResponse ==
    (counters' # counters \/ savers' # savers \/ nrecords' # nrecords)
        => \E i \in Slots : /\ px[i].pc = "upstream"
                            /\ Responded(px'[i])
                            /\ px'[i].records = 1
                            /\ nrecords' = nrecords + 1

\* C15 as stated: Record(provider) is called exactly once when an upstream
\* response was received and not at all otherwise, never before the response
\* arrives, and a request makes at most one upstream call.
C15_Original ==
    [][/\ RecordOnlyOnResponse
       /\ \A i \in Slots :
            /\ px'[i].calls <= 1
            /\ px'[i].records = IF Responded(px'[i]) THEN 1 ELSE 0]_vars

\* C15, amended: Record(provider) is called exactly once when an upstream
\* response was received by a handler that obtained the budget tracker, and
\* not at all otherwise (the request was rejected at provider resolution, at
\* the budget check or at key selection, the upstream call failed without a
\* response, or GetBudgetTracker returned an error); it is never called
\* before the response arrives, and a request makes at most one upstream
\* call.
C15_RecordOncePerResponse ==
    [][/\ RecordOnlyOnResponse
       /\ \A i \in Slots :
            /\ px'[i].calls <= 1
            /\ px'[i].records = IF Responded(px'[i]) /\ px'[i].budget = "tracker"
                                THEN 1 ELSE 0
            /\ px'[i].budget = "nil" => budgetOnce' = "nil"]_vars

\* C15's case: the response of a second request has arrived, and Record has
\* run once for each.
C15_Witness ==
    \E i \in Slots :
        /\ Responded(px[i])
        /\ px[i].calls = 1
        /\ px[i].records = 1
        /\ nrecords = 2

\* The provider a header names, "" when it names none.
HeaderProvider(h) ==
    CASE h = ProviderNames["openai"] -> "openai"
      [] h = AnthropicSpaced -> "anthropic"
      [] h = GeminiUpper -> "gemini"
      [] OTHER -> ""

\* The provider whose prefix the body's model name begins with, "" when
\* there is none.
ModelProvider(b) ==
    CASE b = Body(TRUE, Gpt4o) -> "openai"
      [] b = Body(TRUE, GptUpper) -> "openai"
      [] b = Body(TRUE, Claude3Opus) -> "anthropic"
      [] b = Body(TRUE, Glm4) -> "zhipu"
      [] OTHER -> ""

\* C16: a non-empty X-AKM-Provider header decides the provider alone (a known
\* provider is returned whatever the body says, an unknown one is rejected
\* without the body being consulted); with an empty header the provider is
\* the one of the model name's prefix (gpt-4o: openai, claude-3-opus:
\* anthropic), the same request always resolving the same way; a request
\* that resolves to no provider is answered 400 with an invalid-request
\* error and nothing of it is forwarded.
C16_ProviderResolution ==
    \A i \in Slots :
        px[i].pc # "idle" =>
            LET h == GetHeader(px[i].headers, "X-AKM-Provider")
                expected == IF h # <<>> THEN HeaderProvider(h)
                            ELSE ModelProvider(px[i].body)
            IN  IF expected # ""
                THEN /\ px[i].pc = "budget"
                     /\ px[i].provider = expected
                     /\ px[i].status = 0
                ELSE /\ px[i].pc = "done"
                     /\ px[i].status = 400
                     /\ px[i].errType = "invalid_request_error"
                     /\ px[i].provider = ""
                     /\ TouchedNothing(px[i])

\* C16's case: a header naming anthropic has decided a request whose model
\* is gpt-4o.
C16_Witness ==
    \E i \in Slots :
        /\ GetHeader(px[i].headers, "X-AKM-Provider") = AnthropicSpaced
        /\ px[i].body = Body(TRUE, Gpt4o)
        /\ px[i].provider = "anthropic"
        /\ nrequests = 2

\* The value the request in the slot sends upstream is the decrypted value
\* of the record named in its X-AKM-Key header.
UsesNamedKey(p) ==
    /\ p.key # <<>>
    /\ p.key[1].name = p.keyName
    /\ DecryptOk(masterKey, p.key[1].value_encrypted)
    /\ p.apiKey[1] = p.key[1].value_encrypted.pt
    /\ p.keys = <<>>
    /\ p.listed = <<>>

\* The value the request in the slot sends upstream is the decrypted value
\* of a record that is active and bound to the provider resolved.
UsesProviderKey(p) ==
    /\ p.key # <<>>
    /\ p.key[1].is_active
    /\ p.key[1].provider = p.provider
    /\ DecryptOk(masterKey, p.key[1].value_encrypted)
    /\ p.apiKey[1] = p.key[1].value_encrypted.pt

\* A key error is a 502 with nothing forwarded.
KeyErrorForwardsNothing(p) ==
    p.errType = "key_error"
        => /\ p.status = 502
           /\ p.calls = 0
           /\ p.out = <<>>
           /\ p.apiKey = <<>>

\* C17: with an X-AKM-Key header the proxy uses exactly the named key, and
\* answers with a gateway error when that key is absent or does not decrypt,
\* never falling back to another key; without the header it uses a key that
\* is active and bound to the resolved provider, and answers with a gateway
\* error and forwards nothing when no such key is listed.
C17_KeySelection ==
    [][\A i \in Slots :
          /\ px'[i].apiKey # <<>>
                => IF px'[i].keyName # <<>>
                   THEN UsesNamedKey(px'[i])
                   ELSE UsesProviderKey(px'[i])
          /\ KeyErrorForwardsNothing(px'[i])
          /\ px'[i].calls = 1 => px'[i].apiKey # <<>>
          /\ ( /\ px[i].keyName # <<>>
               /\ px'[i] # px[i]
               /\ \/ px[i].pc = "select" /\ px[i].keyName \notin DOMAIN keysCache
                  \/ /\ px[i].pc = "decrypt"
                     /\ ~DecryptOk(masterKey, px[i].key[1].value_encrypted) )
                => px'[i].errType = "key_error"
          /\ ( /\ px[i].keyName = <<>>
               /\ px'[i] # px[i]
               /\ px[i].pc = "pick"
               /\ \A j \in 1..Len(px[i].keys) : ~px[i].keys[j].is_active )
                => px'[i].errType = "key_error"]_vars

\* The header of the name, none when the request has none.
HeaderValue(h, name) ==
    IF name \in DOMAIN h THEN <<h[name]>> ELSE <<>>

MaxVerifies == 1

\* sem := make(chan struct{}, 5)
SemCapacity == 5

\* The names of the verifier's store, in one order of the map's iteration.
VerifyNames ==
    <<<<"A">>, <<"B">>, <<"C">>, <<"D">>, <<"E">>, <<"F">>>>

\* The keys file of the verifier's store: a legacy file of six keys, two of
\* them made under this master key (one of a provider with no verifier) and
\* four under another.
VerifyKeysFile ==
    PlainFile(KeysFilePayload(CacheOf(
        { StoredKey(<<"A">>, K1, "va"),
          OfProvider(StoredKey(<<"B">>, K1, "vb"), "custom") }
        \cup {StoredKey(n, K0, "v0") : n \in {<<"C">>, <<"D">>, <<"E">>, <<"F">>}}), 0))

\* The provider and name filters VerifyAll is called with.
VerifyInputs ==
    { [provider |-> "", name |-> <<>>],
      [provider |-> "openai", name |-> <<>>],
      [provider |-> "", name |-> <<"A">>],
      [provider |-> "openai", name |-> <<"B">>] }

\* What the provider's endpoint answers a probe: a status, or nothing.
NoResponse == 0
ProbeResponses == {200, 401, 403, 500, NoResponse}

Reverse(seq) ==
    [i \in 1..Len(seq) |-> seq[Len(seq) + 1 - i]]

\* The orders of the map's iteration the model takes.
ListOrders ==
    {VerifyNames, Reverse(VerifyNames)}

\* results[idx] before its goroutine has stored it.
NoResult == [status |-> "nil"]

VerifyResult(name, provider, status) ==
    [name |-> name, provider |-> provider, status |-> status]

\* normalizeProvider, on the provider names of the store.
normalizeProvider(provider) ==
    CASE provider = "google" -> "gemini"
      [] provider = "OpenAI" -> "openai"
      [] OTHER -> provider

\* providerVerifiers
providerVerifiers ==
    {"openai", "anthropic", "gemini", "deepseek", "zhipu"}

\* VerifyKey, given what the endpoint answers.
VerifyKey(name, provider, response) ==
    CASE normalizeProvider(provider) \notin providerVerifiers ->
            VerifyResult(name, provider, "unsupported")
      [] response = NoResponse -> VerifyResult(name, provider, "error")
      [] response = 200 -> VerifyResult(name, provider, "valid")
      [] response \in {401, 403} -> VerifyResult(name, provider, "invalid")
      [] OTHER -> VerifyResult(name, provider, "error")

\* The goroutines that hold a slot of the semaphore.
SemHolders(g) ==
    {j \in 1..Len(g) : g[j].pc \in {"acquired", "nl", "probing", "stored"}}

\* A semaphore that always has room.
SemFreeAlways(g) ==
    TRUE

\* sem <- struct{}{} can proceed.
SemFree(g) ==
    Cardinality(SemHolders(g)) < SemCapacity

\* A wait that does not wait.
WaitDoneAtOnce(g) ==
    TRUE

\* wg.Wait() can return.
WaitDone(g) ==
    \A j \in 1..Len(g) : g[j].pc = "done"

\* VerifyAll up to wg.Wait(): ListKeys, the name filter, the results slice and
\* one goroutine per key; no key is the return of nil.
VerifyAll(provider, name) ==
    /\ ~crashed
    /\ w.pc = "idle"
    /\ vf.pc \in {"idle", "returned"}
    /\ nverifies < MaxVerifies
    /\ nverifies' = nverifies + 1
    /\ \E order \in ListOrders :
          LET listed == SelectSeq(order,
                            LAMBDA n : n \in ListKeysMatches(keysCache, provider))
              keys == IF name = <<>> THEN listed
                      ELSE SelectSeq(listed, LAMBDA n : n = name)
          IN  IF keys = <<>>
              THEN vf' = [VIdle EXCEPT !.pc = "returned"]
              ELSE vf' = [pc |-> "waiting",
                          keys |-> [i \in 1..Len(keys) |->
                                      [name |-> keys[i],
                                       provider |-> keysCache[keys[i]].provider]],
                          results |-> [i \in 1..Len(keys) |-> NoResult],
                          g |-> [i \in 1..Len(keys) |->
                                   [pc |-> "spawned", idx |-> i,
                                    keyName |-> keys[i],
                                    keyProvider |-> keysCache[keys[i]].provider,
                                    stores |-> 0, got |-> ""]]]
    /\ UNCHANGED <<storeVars, crashed, faults, budgetVars, proxyVars, cryptoVars>>

\* The goroutine stores its result.
StoreResult(j, result) ==
    vf' = [vf EXCEPT !.results[vf.g[j].idx] = result,
                     !.g[j].pc = "stored", !.g[j].stores = @ + 1]

\* A goroutine that returns on GetKeyValue's error and stores nothing.
ErrorReturnsWithoutResult(j) ==
    vf' = [vf EXCEPT !.g[j].pc = "stored", !.g[j].got = "error"]

\* if err != nil: results[idx] is the error result, and the goroutine
\* returns.
ErrorResult(j) ==
    vf' = [vf EXCEPT !.results[vf.g[j].idx] =
                         VerifyResult(vf.g[j].keyName, vf.g[j].keyProvider, "error"),
                     !.g[j].pc = "stored", !.g[j].stores = @ + 1,
                     !.g[j].got = "error"]

\* sem <- struct{}{}
VerifyAcquire(j) ==
    /\ ~crashed
    /\ vf.pc = "waiting"
    /\ vf.g[j].pc = "spawned"
    /\ SemFree(vf.g)
    /\ vf' = [vf EXCEPT !.g[j].pc = "acquired"]
    /\ UNCHANGED <<storeVars, crashed, faults, budgetVars, proxyVars, cryptoVars, nverifies>>

\* storage.GetKeyValue(keyName, "verify"): the lookup, the decryption and
\* logUsage's write of the entry; on its error the goroutine stores the
\* error result.
VerifyDecrypt(j) ==
    /\ ~crashed
    /\ w.pc = "idle"
    /\ vf.pc = "waiting"
    /\ vf.g[j].pc = "acquired"
    /\ LET name == vf.g[j].keyName
       IN  IF \/ name \notin DOMAIN keysCache
              \/ ~DecryptOk(masterKey, keysCache[name].value_encrypted)
           THEN /\ ErrorResult(j)
                /\ UNCHANGED <<auditFile, AuditErrors, faults>>
           ELSE \E out \in LogOutcomes :
                  /\ LogWrite(out, SignedLog(name, "read", "verify", now, masterKey))
                  /\ vf' = [vf EXCEPT !.g[j].pc = IF out = "ok" THEN "nl"
                                                  ELSE "probing",
                                       !.g[j].got = "value"]
    /\ UNCHANGED <<masterKey, keysCache, loadFailed, files, backup, now, nonce,
                   writerVars, readerVars, keysFile0, crashed, budgetVars,
                   proxyVars, cryptoVars, nverifies>>

\* The end of the line of the entry, and GetKeyValue returns the value.
VerifyLogEnd(j) ==
    /\ ~crashed
    /\ vf.pc = "waiting"
    /\ vf.g[j].pc = "nl"
    /\ \E ok \in BOOLEAN : LogEnd(ok)
    /\ vf' = [vf EXCEPT !.g[j].pc = "probing"]
    /\ UNCHANGED <<masterKey, keysCache, loadFailed, files, AuditErrors, backup,
                   now, nonce, writerVars, readerVars, keysFile0, crashed,
                   budgetVars, proxyVars, cryptoVars, nverifies>>

\* results[idx] = VerifyKey(keyName, keyProvider, value)
VerifyProbe(j, response) ==
    /\ ~crashed
    /\ vf.pc = "waiting"
    /\ vf.g[j].pc = "probing"
    /\ StoreResult(j, VerifyKey(vf.g[j].keyName, vf.g[j].keyProvider, response))
    /\ UNCHANGED <<storeVars, crashed, faults, budgetVars, proxyVars, cryptoVars, nverifies>>

\* A goroutine whose release of the slot is not followed by wg.Done().
VerifyReleaseWithoutDone(j) ==
    /\ ~crashed
    /\ vf.pc = "waiting"
    /\ vf.g[j].pc = "stored"
    /\ vf' = [vf EXCEPT !.g[j].pc = "released"]
    /\ UNCHANGED <<storeVars, crashed, faults, budgetVars, proxyVars, cryptoVars, nverifies>>

\* The goroutine's deferred calls: <-sem, then wg.Done().
VerifyRelease(j) ==
    /\ ~crashed
    /\ vf.pc = "waiting"
    /\ vf.g[j].pc = "stored"
    /\ vf' = [vf EXCEPT !.g[j].pc = "done"]
    /\ UNCHANGED <<storeVars, crashed, faults, budgetVars, proxyVars, cryptoVars, nverifies>>

\* wg.Wait() returns, and VerifyAll returns results.
VerifyReturn ==
    /\ ~crashed
    /\ vf.pc = "waiting"
    /\ WaitDone(vf.g)
    /\ vf' = [vf EXCEPT !.pc = "returned"]
    /\ UNCHANGED <<storeVars, crashed, faults, budgetVars, proxyVars, cryptoVars, nverifies>>

VerifyNext ==
    \/ \E in \in VerifyInputs : VerifyAll(in.provider, in.name)
    \/ \E j \in 1..Len(vf.g) : VerifyAcquire(j)
    \/ \E j \in 1..Len(vf.g) : VerifyDecrypt(j)
    \/ \E j \in 1..Len(vf.g) : VerifyLogEnd(j)
    \/ \E j \in 1..Len(vf.g), response \in ProbeResponses : VerifyProbe(j, response)
    \/ \E j \in 1..Len(vf.g) : VerifyRelease(j)
    \/ VerifyReturn

VerifySpecInit ==
    /\ StoreInit(VerifyKeysFile)
    /\ crashed = FALSE
    /\ faults = 0
    /\ BudgetInit(Absent)
    /\ ProxyInit
    /\ VerifyInit
    /\ CryptoInit(StoredMasterKey(K1))

SpecVerify ==
    VerifySpecInit /\ [][VerifyNext]_vars

\* The calls of DeleteKey that may run while VerifyAll does.
MaxVerifyWrites == 1

\* A store of three keys: A and B made under this master key (B of a
\* provider with no verifier), C under another.
VerifyDeleteKeysFile ==
    PlainFile(KeysFilePayload(CacheOf(
        { StoredKey(<<"A">>, K1, "va"),
          OfProvider(StoredKey(<<"B">>, K1, "vb"), "custom"),
          StoredKey(<<"C">>, K0, "v0") }), 0))

\* A DeleteKey by another caller of the same KeyStorage.
VerifyDeleteKey(name) ==
    /\ nwrites < MaxVerifyWrites
    /\ DeleteKey(name)

\* VerifyAll while another goroutine deletes a key.
VerifyDeleteNext ==
    \/ VerifyNext
    \/ \E name \in {<<"A">>, <<"C">>} : VerifyDeleteKey(name)
    \/ SaveOpen
    \/ SaveWrite
    \/ SaveRename
    \/ WriterLog
    \/ WriterLogEnd

VerifyDeleteSpecInit ==
    /\ StoreInit(VerifyDeleteKeysFile)
    /\ crashed = FALSE
    /\ faults = 0
    /\ BudgetInit(Absent)
    /\ ProxyInit
    /\ VerifyInit
    /\ CryptoInit(StoredMasterKey(K1))

SpecVerifyDelete ==
    VerifyDeleteSpecInit /\ [][VerifyDeleteNext]_vars

\* ------------------------------------------------- verifier: properties

\* C19: VerifyAll returns only after every selected key has its result: the
\* slice returned has one entry per selected key, none of them nil, each
\* stored once, and entry i is the result for key i, whatever the order in
\* which the probes ended.
C19_ResultsCompleteAndOrdered ==
    vf.pc = "returned" =>
        /\ Len(vf.results) = Len(vf.keys)
        /\ \A i \in 1..Len(vf.keys) :
              /\ vf.results[i] # NoResult
              /\ vf.results[i].name = vf.keys[i].name
              /\ vf.results[i].provider = vf.keys[i].provider
              /\ vf.results[i].status \in {"valid", "invalid", "error", "unsupported"}
              /\ vf.g[i].stores = 1
              /\ vf.g[i].pc = "done"

\* C19's case: VerifyAll has returned the results of six keys listed from F
\* to A.
C19_Witness ==
    /\ vf.pc = "returned"
    /\ Len(vf.keys) = 6
    /\ vf.keys[1].name = <<"F">>
    /\ vf.results[6].status = "valid"
    /\ vf.results[5].status = "unsupported"

\* The goroutines whose probe (the decryption and the provider call) is in
\* progress.
InProgress(g) ==
    {j \in 1..Len(g) : g[j].pc \in {"acquired", "nl", "probing"}}

\* C20: at most 5 probes are in progress at any moment, for any number of
\* selected keys.
C20_AtMostFiveProbes ==
    /\ Cardinality(InProgress(vf.g)) <= 5
    /\ Cardinality({j \in 1..Len(vf.g) : vf.g[j].pc \in {"acquired", "nl", "probing", "stored"}}) <= 5

\* C20's case: five probes are in progress and a sixth key waits.
C20_Witness ==
    /\ Cardinality(InProgress(vf.g)) = 5
    /\ \E j \in 1..Len(vf.g) : vf.g[j].pc = "spawned"

\* The results VerifyKey can give a key.
ProbeResults(name, provider) ==
    {VerifyKey(name, provider, resp) : resp \in ProbeResponses}

\* C21: when GetKeyValue fails for a key during VerifyAll (its value cannot
\* be decrypted, or the key was deleted after the selection), that key's
\* result has status error, and every other selected key is still probed
\* and has its own result.
C21_FailedKeyIsErrorOthersProbed ==
    /\ \A j \in 1..Len(vf.g) :
          /\ (vf.g[j].got = "error" /\ vf.g[j].pc \in {"stored", "done"}) =>
                 vf.results[j] =
                     VerifyResult(vf.g[j].keyName, vf.g[j].keyProvider, "error")
          /\ (vf.g[j].got = "value" /\ vf.g[j].pc \in {"stored", "done"}) =>
                 vf.results[j] \in ProbeResults(vf.g[j].keyName, vf.g[j].keyProvider)
    /\ vf.pc = "returned" =>
          \A i \in 1..Len(vf.keys) :
             LET n == vf.keys[i].name
             IN  /\ vf.results[i] # NoResult
                 /\ vf.g[i].got \in {"error", "value"}
                 /\ n \in DOMAIN keysCache =>
                       (vf.g[i].got = "value"
                           <=> DecryptOk(masterKey, keysCache[n].value_encrypted))

\* C21's case: of three selected keys, A was deleted after the selection
\* and C cannot be decrypted, both have the error result, and B was probed.
C21_Witness ==
    /\ vf.pc = "returned"
    /\ Len(vf.keys) = 3
    /\ \E i, j, k \in 1..3 :
          /\ vf.keys[i].name = <<"A">>
          /\ <<"A">> \notin DOMAIN keysCache
          /\ vf.g[i].got = "error"
          /\ vf.results[i].status = "error"
          /\ vf.keys[j].name = <<"C">>
          /\ vf.results[j].status = "error"
          /\ vf.keys[k].name = <<"B">>
          /\ vf.g[k].got = "value"
          /\ vf.results[k].status = "unsupported"


\* ---------------------------------------------- audit verification: C22

\* The lines of the audit file, as VerifyAuditLogs splits it.
FileLines ==
    SplitLines(auditFile, <<>>, <<>>)

\* The lines that are whole entries written without a signature.
UnsignedLines ==
    {i \in 1..Len(FileLines) :
        /\ Len(FileLines[i]) = 1
        /\ FileLines[i][1].t = "entry"
        /\ FileLines[i][1].signature = <<>>}

\* The lines that have a byte changed or do not parse.
CorruptedLines ==
    {i \in 1..Len(FileLines) :
        \/ Len(FileLines[i]) # 1
        \/ FileLines[i][1].t \notin {"entry", "raw"}
        \/ FileLines[i][1].t = "raw" /\ FileLines[i][1].damage # "none"}

\* C22: VerifyAuditLogs classifies every non-empty line as exactly one of
\* verified, unsigned or tampered: for N entries of which M carry no
\* signature and K have a corrupted byte it returns total = N, unsigned = M,
\* tampered = K and verified = N - M - K, a line that does not parse being
\* counted as tampered.
C22_AuditCounts ==
    (rret.op = "VerifyAuditLogs" /\ rret.err = "ok") =>
        LET N == Len(FileLines)
            M == Cardinality(UnsignedLines)
            K == Cardinality(CorruptedLines)
        IN  rret.result = [total |-> N, verified |-> N - M - K,
                           unsigned |-> M, tampered |-> K]

\* What holds of the counts: every line is counted once.
C22_CountsAddUp ==
    (rret.op = "VerifyAuditLogs" /\ rret.err = "ok") =>
        /\ rret.result.total = Len(FileLines)
        /\ rret.result.total =
              rret.result.verified + rret.result.unsigned + rret.result.tampered


\* ------------------------------------------------- the master key: C23

\* C23: Initialize generates and stores a new master key only when the
\* keyring holds no master key; when a key is stored, Initialize loads it
\* and leaves the keyring as it was, so it never replaces a stored key.
C23_InitializeKeepsStoredKey ==
    cret.op = "Initialize" =>
        /\ keychain # cret.before => cret.before \in {NoEntry, EmptyEntry}
        /\ cret.before.kind = "key" =>
              /\ keychain = cret.before
              /\ cret.err = "ok" => masterKey = cret.before.key


\* ------------------------------------------------ legacy keys files: C24

\* The records of the map.
Records(cache) ==
    {cache[n] : n \in DOMAIN cache}

EffectInPlace ==
    CASE wret.op = "AddKey" ->
            /\ wret.name \in DOMAIN keysCache
            /\ keysCache[wret.name].value_encrypted.pt = wret.value
      [] wret.op = "UpdateKey" ->
            /\ wret.name \in DOMAIN keysCache
            /\ keysCache[wret.name].updated_at > wret.before[wret.name].updated_at
      [] wret.op = "DeleteKey" ->
            wret.name \notin DOMAIN keysCache

\* The keys file is the encrypted map as it is in memory.
Persisted ==
    /\ files[KeysPath].kind = "enc"
    /\ files[KeysPath] = wret.blob
    /\ DecryptOk(masterKey, files[KeysPath].tok)
    /\ files[KeysPath].tok.pt.keys = Records(keysCache)

\* A mutating call whose audit append failed returned success, with its
\* effect in the map and in the keys file.
WriterSurvivesAuditFailure ==
    (wret.op \in {"AddKey", "UpdateKey", "DeleteKey"} /\ wret.logfail) =>
        /\ wret.err = "ok"
        /\ EffectInPlace
        /\ Persisted

\* C25: when the audit append fails (the audit file cannot be opened or
\* written), AddKey, UpdateKey, DeleteKey, GetKeyValue and the batch reads
\* still return success, the mutation in place and persisted, the read
\* giving the plaintext; a batch read fails only on a record it cannot
\* decrypt.
C25_AuditFailureIsNotFatal ==
    [][ /\ wret' # wret => WriterSurvivesAuditFailure'
        /\ (rret' # rret /\ rret'.op = "GetKeyValue" /\ rret'.logfail) =>
              /\ rret'.err = "ok"
              /\ rret'.result = <<r.key[1].value_encrypted.pt>>
        /\ (rret' # rret /\ rret'.op \in {"inject", "export"} /\ rret'.logfail) =>
              \/ /\ rret'.err = "ok"
                 /\ r.todo = {}
                 /\ rret'.result = r.result
                 /\ \A n \in DOMAIN r.result :
                       r.result[n] = keysCache[n].value_encrypted.pt
              \/ /\ rret'.err = "decrypt"
                 /\ \E n \in r.todo :
                       ~DecryptOk(masterKey, keysCache[n].value_encrypted)
      ]_vars

\* C25's case: a DeleteKey whose audit append failed has returned success.
C25_Witness ==
    /\ wret.op = "DeleteKey"
    /\ wret.logfail
    /\ wret.err = "ok"
    /\ AuditErrors = 1
    /\ wret.name \notin DOMAIN keysCache


\* ------------------------------------------------ budget: Record, C26

\* A Record called now has to wait for a background save: no other call
\* holds the tracker's lock, and a save holds the read lock for its write
\* of the budget file.
RecordWaitsForSave ==
    /\ ~crashed
    /\ nrecords < MaxRecords
    /\ bw.pc = "idle"
    /\ \E i \in 1..Len(savers) : SaverHoldsRLock(savers[i])

\* C26: Record returns as soon as the counters in memory are updated: it
\* never waits for a disk write of the budget file, its own or one started
\* by an earlier Record, and a failed background save neither gives the
\* caller an error nor undoes the increment.
C26_RecordNeverWaitsForDisk ==
    [][ /\ ~RecordWaitsForSave
        /\ nrecords' > nrecords =>
              /\ bret'.op = "Record"
              /\ bret'.err = "ok"
              /\ savers' = Append(savers, Head(SpawnSave(<<>>)))
              /\ budgetFiles' = budgetFiles
        /\ Len(savers') < Len(savers) => counters' = counters
      ]_vars


\* ------------------------------- budget: SetConfig and ResetCounter, C27

\* A SetConfig or ResetCounter that returned success returned after the
\* budget file held what the call changed.
SuccessIsOnDisk ==
    (bret.op \in {"SetConfig", "ResetCounter"} /\ bret.err = "ok") =>
        /\ ContentOf(budgetFiles, BudgetPath) = BudgetData(config, counters)
        /\ bret.op = "SetConfig" => bret.provider \in DOMAIN config
        /\ bret.op = "ResetCounter" => bret.provider \notin DOMAIN counters

\* C27: SetConfig and ResetCounter return success only after the budget
\* file holds the new config or the counter's removal; when the write fails
\* they return the error and the config and counters in memory are what
\* they were before the call.
C27_ConfigCallsAllOrNothing ==
    /\ SuccessIsOnDisk
    /\ (bret.op \in {"SetConfig", "ResetCounter"} /\ bret.err # "ok") =>
          /\ config = bret.cfgBefore
          /\ counters = bret.ctrBefore


\* --------------------------------------------------- batch reads: C28

\* The batch read in progress returns in this step.
BatchReturns ==
    /\ r.pc = "batch"
    /\ rret' # rret
    /\ rret'.op \in {"inject", "export"}

\* The records of the map that pass the filters the batch read was given.
Selected ==
    {n \in DOMAIN keysCache :
        /\ r.filter.provider # "" => keysCache[n].provider = r.filter.provider
        /\ r.filter.keyNames # {} => n \in r.filter.keyNames}

\* The entries of the batch read's action that the audit file has gained
\* since the read began, at length r.mark.
BatchEntries(audit, action) ==
    {i \in (r.mark + 1)..Len(audit) :
        audit[i].t = "entry" /\ audit[i].action = action}

\* A batch read that succeeds returns exactly the selected records, each
\* with its plaintext; one that fails returns no plaintext, and fails on a
\* selected record that cannot be decrypted.
BatchResult ==
    BatchReturns =>
        IF rret'.err = "ok"
        THEN /\ DOMAIN rret'.result = Selected
             /\ \A n \in Selected :
                   /\ DecryptOk(masterKey, keysCache[n].value_encrypted)
                   /\ rret'.result[n] = keysCache[n].value_encrypted.pt
        ELSE /\ rret'.result = <<>>
             /\ \E n \in Selected :
                   ~DecryptOk(masterKey, keysCache[n].value_encrypted)

KeyInUse == K1

\* C29: every audit entry the store appends carries a non-empty signature
\* that verifies under the master key in use, so that VerifyAuditLogs run
\* with that key classifies the entry's line as verified; also the entries
\* of Backup and those written while the crypto engine has no key loaded.
C29_EveryEntryIsSigned ==
    \A i \in 1..Len(auditFile) :
        auditFile[i].t = "entry" =>
            /\ auditFile[i].signature # <<>>
            /\ ClassifyLine(<<auditFile[i]>>, KeyInUse) = "verified"


\* -------------------------------------------- readers of records: C30

\* ListKeys(provider) under the read lock: the caller gets the pointers to
\* the records of the map that match, here the record each pointed to when
\* it was listed.
ListKeys(provider) ==
    /\ CanRLock
    /\ nreads < MaxReads
    /\ nreads' = nreads + 1
    /\ r' = [RIdle EXCEPT !.pc = "listed", !.op = "ListKeys",
                          !.result = [n \in ListKeysMatches(keysCache, provider) |->
                                         keysCache[n]]]
    /\ rret' = NoRet
    /\ UNCHANGED <<masterKey, keysCache, files, auditFile, AuditErrors, backup,
                   now, nonce, crashed, faults, fixedVars, writerVars>>

\* The fields UpdateKey assigns.
UpdateFields ==
    {"provider", "description", "source_project", "tags", "is_active", "updated_at"}

\* What a read of a record can give while UpdateKey assigns its fields, no
\* lock being held by the reader: each field as it was or as it will be.
Mixes(before, after) ==
    {[f \in DOMAIN after |-> IF f \in S THEN after[f] ELSE before[f]] :
        S \in SUBSET UpdateFields}

\* The map still holds the record a listed pointer points to: AddKey makes
\* a new record, UpdateKey assigns to the one in the map.
PointsIntoMap(key) ==
    /\ key.name \in DOMAIN keysCache
    /\ keysCache[key.name].created_at = key.created_at

\* The records a read through the listed pointer can give now.
Pointee(key) ==
    IF ~PointsIntoMap(key)
    THEN {key}
    ELSE IF w.pc = "save" /\ w.op = "UpdateKey" /\ w.name = key.name
    THEN Mixes(w.before[key.name], keysCache[key.name])
    ELSE {keysCache[key.name]}

\* The caller of ListKeys reads a record it was given (selectKey: k.IsActive,
\* k.Name), holding no lock.
ObserveKey(n) ==
    /\ ~crashed
    /\ r.pc = "listed"
    /\ n \in DOMAIN r.result
    /\ \E seen \in Pointee(r.result[n]) :
          rret' = [op |-> "ListKeys", name |-> n, project |-> "", err |-> "ok",
                   key |-> <<seen>>, expected |-> <<>>, result |-> <<>>,
                   logged |-> <<>>, logfail |-> FALSE]
    /\ r' = RIdle
    /\ UNCHANGED <<masterKey, keysCache, files, auditFile, AuditErrors, backup,
                   now, nonce, crashed, faults, nreads, fixedVars, writerVars>>

\* The mutating calls, and a caller of ListKeys that reads the records it
\* got.
ReadersNext ==
    \/ \E name \in GoodNames, in \in AddInputs :
            AddKey(name, in.value, in.provider, in.opts)
    \/ \E name \in GoodNames, updates \in UpdateMaps : UpdateKey(name, updates)
    \/ \E name \in GoodNames : DeleteKey(name)
    \/ SaveOpen
    \/ SaveWrite
    \/ SaveRename
    \/ WriterLog
    \/ WriterLogEnd
    \/ \E provider \in {"", "openai"} : ListKeys(provider)
    \/ \E n \in GoodNames : ObserveKey(n)

SpecReaders ==
    Init /\ [][ReadersNext]_vars

\* The records of the keys file as it is on disk.
RecordsOnDisk ==
    CASE files[KeysPath].kind = "plain" -> files[KeysPath].payload.keys
      [] files[KeysPath].kind = "enc" -> files[KeysPath].tok.pt.keys
      [] OTHER -> {}

\* C30: a reader running concurrently with AddKey, UpdateKey or DeleteKey
\* sees each record either entirely as before the mutation or entirely as
\* after it has been committed to disk: never a record with part of an
\* UpdateKey's changes, nor a change that was not persisted.  The records
\* ListKeys returns are those of the keys file, and a record read later
\* through ListKeys' result is as it was listed or as the keys file has it.
C30_ReadersSeeCommittedRecords ==
    [][ /\ r'.pc = "listed" =>
              \A n \in DOMAIN r'.result : r'.result[n] \in RecordsOnDisk
        /\ (r.pc = "listed" /\ rret' # rret /\ rret'.op = "ListKeys") =>
              \/ rret'.key[1] = r.result[rret'.name]
              \/ rret'.key[1] \in RecordsOnDisk
      ]_vars


\* ------------------------------------------- budget: concurrent saves, C31

\* The budget file holds a whole serialization: the file a tracker was
\* constructed on, or the bytes of one save and of no other.
WholeBudgetFile(f) ==
    f.kind \in {"absent", "budget"}

\* C31: with background saves of Record running concurrently the budget
\* file holds, at every moment and after a crash at any step, a complete
\* serialization of a budget state, never a truncated or mixed one.
C31_BudgetFileIsNeverTorn ==
    WholeBudgetFile(ContentOf(budgetFiles, BudgetPath))


\* ------------------------------------- proxy: requests served together, C32

\* Requests the server handles at the same time, each in a goroutine of its
\* own.
MaxConcurrent == 2

\* The requests sent together: both resolve to openai by their model.
ConcurrentRequests ==
    { req \in ProxyRequests :
        resolveProvider(GetHeader(req.headers, "X-AKM-Provider"), req.body)
            = {"openai"} }

\* Budget files with a daily limit for openai that is not yet reached.
ConcurrentBudgetFiles ==
    { f \in ProxyBudgetFiles :
        /\ f.kind = "budget"
        /\ f.counters["openai"].daily_count < f.config["openai"].daily_limit }

\* The server with MaxConcurrent requests in progress, on a keys file with
\* an active openai key.
ConcurrentSpecInit ==
    /\ StoreInit(EncFile(Encrypt(K1, 0,
          KeysFilePayload(CacheOf({StoredKey(OPENAI_KEY, K1, "v0")}), 0))))
    /\ crashed = FALSE
    /\ faults = 0
    /\ \E f \in ConcurrentBudgetFiles : BudgetInit(f)
    /\ px = [i \in 1..MaxConcurrent |-> PIdle]
    /\ budgetOnce = "unset"
    /\ nrequests = 0
    /\ VerifyInit
    /\ CryptoInit(StoredMasterKey(K1))

ConcurrentNext ==
    \/ \E i \in DOMAIN px, req \in ConcurrentRequests : ProxyHandler(i, req)
    \/ \E i \in DOMAIN px : ProxyBudget(i)
    \/ \E i \in DOMAIN px : ProxySelect(i)
    \/ \E i \in DOMAIN px : ProxyPick(i)
    \/ \E i \in DOMAIN px : ProxyDecrypt(i)
    \/ \E i \in DOMAIN px : ProxyLogEnd(i)
    \/ \E i \in DOMAIN px : ProxyForward(i)
    \/ \E i \in DOMAIN px, status \in UpstreamStatuses : ProxyResponse(i, status)
    \/ \E i \in DOMAIN px : ProxyUpstreamError(i)
    \/ Tick

SpecConcurrent ==
    ConcurrentSpecInit /\ [][ConcurrentNext]_vars

\* C32: for a provider with a daily limit L > 0, the daily count recorded
\* for one day never exceeds L when every Record comes from a proxy request
\* whose Check passed, also when requests are handled concurrently.
C32_DailyCountWithinLimit ==
    \A p \in DOMAIN counters \cap DOMAIN config :
        config[p].daily_limit > 0 =>
            counters[p].daily_count <= config[p].daily_limit


\* ------------------------------------------- the count of failures, C33

\* Audit appends that fail in a behaviour of the counting specification.
MaxAuditFaults == 2

\* logUsage's failure: os.OpenFile or f.Write returns an error, and
\* AuditErrors++ loads the counter.  The store of the sum is a later step of
\* the goroutine, so that the increment of another goroutine can fall
\* between the two.
LogFails(out) ==
    /\ out \in LogOutcomes \ {"ok"}
    /\ faults < MaxAuditFaults
    /\ faults' = faults + 1
    /\ auditFile' = IF out = "writefail"
                    THEN WriteAppending(auditFile, Torn) ELSE auditFile
    /\ UNCHANGED AuditErrors

\* logUsage of a mutating call fails, up to the load of the counter.
WriterLogFails ==
    /\ ~crashed
    /\ w.pc = "log"
    /\ \E out \in LogOutcomes : LogFails(out)
    /\ w' = [w EXCEPT !.pc = "count", !.seen = AuditErrors]
    /\ UNCHANGED <<masterKey, keysCache, files, backup, now, nonce, crashed,
                   wret, added, nwrites, fixedVars, readerVars>>

\* AuditErrors++ stores the sum, and the mutating call returns.
WriterCount ==
    /\ ~crashed
    /\ w.pc = "count"
    /\ AuditErrors' = w.seen + 1
    /\ Succeed(TRUE)
    /\ UNCHANGED <<masterKey, keysCache, files, auditFile, backup, now, nonce,
                   crashed, faults, nwrites, fixedVars, readerVars>>

\* logUsage of GetKeyValue fails, outside the store's lock, up to the load of
\* the counter.
ReaderLogFails ==
    /\ ~crashed
    /\ r.pc = "decrypt"
    /\ DecryptOk(masterKey, r.key[1].value_encrypted)
    /\ \E out \in LogOutcomes : LogFails(out)
    /\ r' = [r EXCEPT !.pc = "count", !.seen = AuditErrors,
                      !.result = <<r.key[1].value_encrypted.pt>>]
    /\ UNCHANGED <<masterKey, keysCache, files, backup, now, nonce, crashed,
                   rret, nreads, fixedVars, writerVars>>

\* AuditErrors++ stores the sum, and GetKeyValue returns the value.
ReaderCount ==
    /\ ~crashed
    /\ r.pc = "count"
    /\ AuditErrors' = r.seen + 1
    /\ Return("ok", r.result, TRUE)
    /\ UNCHANGED <<masterKey, keysCache, files, auditFile, backup, now, nonce,
                   crashed, faults, nreads, fixedVars, writerVars>>

\* AddKey and GetKeyValue with logUsage's increment as the two memory
\* accesses it is.
CountNext ==
    \/ \E name \in GoodNames, in \in AddInputs :
            AddKey(name, in.value, in.provider, in.opts)
    \/ SaveOpen
    \/ SaveWrite
    \/ SaveRename
    \/ WriterLog
    \/ WriterLogEnd
    \/ WriterLogFails
    \/ WriterCount
    \/ \E name \in GoodNames, project \in Projects : GetKeyValue(name, project)
    \/ GetKeyValueDecrypt
    \/ ReaderLogEnd
    \/ ReaderLogFails
    \/ ReaderCount

SpecCount ==
    Init /\ [][CountNext]_vars

\* A call returns in this step after its audit append failed.
WriterAppendFailed ==
    w.pc # "idle" /\ w'.pc = "idle" /\ wret'.logfail

ReaderAppendFailed ==
    r.pc # "idle" /\ r'.pc = "idle" /\ rret'.logfail

\* C33: after any interleaving of store operations AuditErrors equals the
\* number of audit appends that failed: it grows by one with every call
\* that returns after a failed append, and by nothing else.
C33_EveryFailedAppendIsCounted ==
    [][ AuditErrors' = AuditErrors
                       + (IF WriterAppendFailed THEN 1 ELSE 0)
                       + (IF ReaderAppendFailed THEN 1 ELSE 0) ]_vars


\* --------------------------------------------- one record per name, C34

\* The records of a keys file that reads as one.
RecordsInFile(file) ==
    CASE file.kind = "enc" -> file.tok.pt.keys
      [] file.kind = "plain" -> file.payload.keys
      [] OTHER -> {}

\* No name is carried by two records.
OneRecordPerName(records) ==
    \A a, b \in records : a.name = b.name => a = b

\* The last call was an AddKey on a name the map already held.
AddedOverExisting ==
    /\ wret.op = "AddKey"
    /\ wret.name \in DOMAIN wret.before

\* The record under the name is the one the call built: the new value, the
\* time of the call as creation time, and the metadata of the options alone.
ReplacedRecord ==
    LET name == wret.name
        old == wret.before[name]
    IN  /\ DOMAIN keysCache = DOMAIN wret.before
        /\ DecryptOk(masterKey, keysCache[name].value_encrypted)
        /\ keysCache[name].value_encrypted.pt = wret.value
        /\ keysCache[name].value_encrypted # old.value_encrypted
        /\ keysCache[name].created_at > old.created_at
        /\ keysCache[name].updated_at = keysCache[name].created_at
        /\ keysCache[name].is_active
        /\ \E i \in AddInputs :
              /\ i.value = wret.value
              /\ keysCache[name].provider = i.provider
              /\ keysCache[name].description =
                    IF "description" \in DOMAIN i.opts
                    THEN <<i.opts.description>> ELSE <<>>
              /\ keysCache[name].source_project =
                    IF "source_project" \in DOMAIN i.opts
                    THEN <<i.opts.source_project>> ELSE <<>>
              /\ keysCache[name].tags =
                    IF "tags" \in DOMAIN i.opts THEN i.opts.tags ELSE <<>>
        /\ RecordsInFile(files[KeysPath]) = {keysCache[n] : n \in DOMAIN keysCache}

\* The call appended one entry, an add naming the key.
LoggedAnAdd ==
    /\ Len(wret.logged) = 1
    /\ wret.logged[1].key_name = wret.name
    /\ wret.logged[1].action = "add"
    /\ \E i \in 1..Len(auditFile) : auditFile[i] = wret.logged[1]

\* Each name has one record in the map and in the keys file, and an AddKey
\* on a name already present fails in saveKeys only.
UniqueNames ==
    /\ \A n \in DOMAIN keysCache : keysCache[n].name = n
    /\ OneRecordPerName(RecordsInFile(files[KeysPath]))
    /\ AddedOverExisting => wret.err \in {"ok"} \cup PersistErrors

C35_InjectedKeyIsActiveOfProvider ==
    \A i \in Slots :
        px[i].calls > 0 => UsesProviderKey(px[i])


\* -------------------------------------------- the singletons' errors, C36

\* C36: when the first call of GetBudgetTracker (and likewise GetCrypto and
\* GetStorage, which have its shape) failed to initialize, every later call
\* returns an error too: no call returns a nil instance with a nil error.
C36_FailedInitStaysFailed ==
    /\ budgetOnce = "nil" => GetBudgetTracker.err
    /\ ~(GetBudgetTracker.instance = "nil" /\ ~GetBudgetTracker.err)


\* ------------------------------------------- one entry on each line, C37

\* Two entries stand on one line: no line end lies between them.
EntriesShareALine ==
    \E i \in 1..(Len(auditFile) - 1) :
        auditFile[i].t = "entry" /\ auditFile[i + 1].t = "entry"

\* C37: when operations append audit entries concurrently and no write
\* fails, every entry is on a line of its own as one complete object: no
\* two entries share a line and no entry is split.
C37_OneEntryPerLine ==
    faults = 0 =>
        /\ ~EntriesShareALine
        /\ \A i \in 1..Len(auditFile) : auditFile[i] # Torn


\* ------------------------------------------- the file and the map, C38

\* C38: after any sequence of AddKey, UpdateKey and DeleteKey calls on a
\* store that loaded, whether the calls succeeded or failed, a fresh store
\* loading the keys file with the same master key has the map the running
\* store has in memory.
C38_ReloadGivesTheMap ==
    (w.pc = "idle" /\ ~loadFailed) =>
        /\ ~loadKeys(files[KeysPath], masterKey).err
        /\ loadKeys(files[KeysPath], masterKey).cache = keysCache


\* ---------------------------------------- budget: the saves converge, C39

\* The tracker with no failing write and no crash, within one day: the
\* calls on it and the steps of the saves.
BudgetLiveNext ==
    \/ \E p \in BudgetProviders : Check(p)
    \/ \E p \in BudgetProviders : Record(p)
    \/ \E i \in 1..Len(savers) : SaverOpen(i)
    \/ \E i \in 1..Len(savers) : SaverWrite(i)
    \/ \E i \in 1..Len(savers) : SaverRename(i)
    \/ \E p \in BudgetProviders, cfg \in ConfigInputs : SetConfig(p, cfg)
    \/ \E p \in BudgetProviders : ResetCounter(p)
    \/ BudgetSaveOpen
    \/ BudgetSaveWrite
    \/ BudgetSaveRename

\* A step of a background save, and a step of the save of a SetConfig or
\* ResetCounter.
SaverStep ==
    \E i \in 1..Len(savers) : SaverOpen(i) \/ SaverWrite(i) \/ SaverRename(i)

BudgetSaveStep ==
    BudgetSaveOpen \/ BudgetSaveWrite \/ BudgetSaveRename

\* No disk operation fails: the failures of the bound are spent from the
\* start.
BudgetLiveInit ==
    /\ StoreInit(Absent)
    /\ crashed = FALSE
    /\ faults = MaxFaults
    /\ \E f \in InitialBudgetFiles : BudgetInit(f)
    /\ ProxyInit
    /\ VerifyInit
    /\ CryptoInit(StoredMasterKey(K1))

\* The goroutines of the saves and the calls holding the lock are scheduled:
\* a save that can take a step takes one.
SpecBudgetLive ==
    /\ BudgetLiveInit
    /\ [][BudgetLiveNext]_vars
    /\ WF_vars(SaverStep)
    /\ WF_vars(BudgetSaveStep)

\* The budget file holds the config and counters in memory (no file for a
\* tracker that has nothing).
FileEqualsMemory ==
    LET f == ContentOf(budgetFiles, BudgetPath)
    IN  IF f = Absent
        THEN config = <<>> /\ counters = <<>>
        ELSE f = BudgetData(config, counters)

\* C39: when no write fails, once no further Record, SetConfig or
\* ResetCounter is issued the background saves all finish, and from then on
\* the budget file's config and counters are those in memory, whatever the
\* interleaving of the saves.
C39_SavesConverge ==
    <>[](savers = <<>> /\ bw.pc = "idle" /\ FileEqualsMemory)

\* C39's case: two Records were made on a tracker without a budget file,
\* their two saves ran together on one temp file, both have ended, and the
\* budget file holds the counters in memory.
C39_Witness ==
    /\ nrecords = 2
    /\ nconfigs = 0
    /\ savers = <<>>
    /\ Len(budgetFiles.inodes) = 1
    /\ budgetFiles.names[BudgetPath] = 1
    /\ ContentOf(budgetFiles, BudgetPath) = BudgetData(config, counters)


\* --------------------------------------------- verifier: termination

\* One of VerifyAll's goroutines runs its next step: the scheduler runs every
\* goroutine that can run, and a send on sem proceeds once a slot is free.
VerifyStep ==
    \/ \E j \in 1..Len(vf.g) : VerifyAcquire(j)
    \/ \E j \in 1..Len(vf.g) : VerifyDecrypt(j)
    \/ \E j \in 1..Len(vf.g) : VerifyLogEnd(j)
    \/ \E j \in 1..Len(vf.g), response \in ProbeResponses : VerifyProbe(j, response)
    \/ \E j \in 1..Len(vf.g) : VerifyRelease(j)

\* A store of six keys, one more than the semaphore has slots: A made under
\* this master key, the five others under another.
VerifyLiveKeysFile ==
    PlainFile(KeysFilePayload(CacheOf(
        { StoredKey(<<"A">>, K1, "va") }
        \cup {StoredKey(n, K0, "v0") :
                 n \in {<<"B">>, <<"C">>, <<"D">>, <<"E">>, <<"F">>}}), 0))

VerifyLiveSpecInit ==
    /\ StoreInit(VerifyLiveKeysFile)
    /\ crashed = FALSE
    /\ faults = 0
    /\ BudgetInit(Absent)
    /\ ProxyInit
    /\ VerifyInit
    /\ CryptoInit(StoredMasterKey(K1))

\* VerifyAll where the goroutines are scheduled and every probe returns
\* (client.Do answers or times out).
SpecVerifyLive ==
    /\ VerifyLiveSpecInit
    /\ [][VerifyNext]_vars
    /\ WF_vars(VerifyStep)
    /\ WF_vars(VerifyReturn)

\* Every goroutine has run its deferred calls and holds no slot.
AllReleased(g) ==
    /\ SemHolders(g) = {}
    /\ \A j \in 1..Len(g) : g[j].pc = "done"

\* C40: VerifyAll terminates for every number of selected keys, provided
\* each probe returns: once it waits for its goroutines, each of them
\* acquires the semaphore and releases it, also when the decryption fails,
\* and the call returns with no slot held.
C40_VerifyAllTerminates ==
    (vf.pc = "waiting") ~> (vf.pc = "returned" /\ AllReleased(vf.g))

\* C40's case: VerifyAll of six keys, more than the semaphore has slots, has
\* returned; five decryptions failed, one probe ran, and every goroutine
\* is done.
C40_Witness ==
    /\ vf.pc = "returned"
    /\ Len(vf.g) > SemCapacity
    /\ Cardinality({j \in 1..Len(vf.g) : vf.g[j].got = "error"}) = 5
    /\ Cardinality({j \in 1..Len(vf.g) : vf.g[j].got = "value"}) = 1
    /\ AllReleased(vf.g)

==============================================================================
